---------------------------- MODULE Spec2Model ----------------------------
(***************************************************************************)
(* ATOM mock generator: validation of a mock-definition document (client   *)
(* side, TypeScript; server side, C#), its transformation into WireMock    *)
(* mappings, the in-memory mapping store and the batch deployment to the   *)
(* remote admin API.                                                       *)
(*                                                                         *)
(* A JSON value is a record [k, s, n, b, o, a]: its kind k and one payload  *)
(* field per kind (s: string, n: number, b: boolean, o: object, a: array), *)
(* the payloads of the other kinds left at their empty value.  A string is *)
(* a tuple of one-character strings, so that blank tests, case conversion  *)
(* and Replace are computed on characters.  Paths and messages of          *)
(* validation errors are TLA+ strings.                                     *)
(***************************************************************************)
EXTENDS Integers, Sequences, FiniteSets, TLC

VARIABLES
    doc,        \* the JSON document of the request being handled
    modelsNew,  \* TRUE: the Models classes initialise Request/Response with new(); FALSE: with null
    srvResult,  \* ConfigValidationService.ValidateConfigFromJson(doc), or NoResult
    cliResult,  \* ValidationService.validateATOMConfig(doc), or NoResult
    store,      \* MappingService._mappings: id -> mapping
    nextGuid,   \* number of Guid.NewGuid() calls so far
    remote,     \* create-calls the last request issued to the remote admin API, in order
    fails,      \* positions of the create-calls of the last request that the remote rejects
    response,   \* the HTTP response of the last controller call, or NoResult
    deployed,   \* what WiremockAdminService.CreateMappingsAsync returned, or NoResult
    pending,    \* UpdateMapping requests between their GetMappingAsync and their UpdateMappingAsync
    deleted     \* the ids for which a DeleteMapping request was answered with success

vars == <<doc, modelsNew, srvResult, cliResult, store, nextGuid, remote, fails, response, deployed,
          pending, deleted>>

-----------------------------------------------------------------------------
(* Bounds *)

MaxPending == 1

MaxMocks == 2
MaxBatch == 3
MaxGuid == 2

-----------------------------------------------------------------------------
(* JSON values *)

Json(kind, s, n, b, o, a) == [k |-> kind, s |-> s, n |-> n, b |-> b, o |-> o, a |-> a]
JUndef == Json("undefined", <<>>, 0, FALSE, <<>>, <<>>)
JNull == Json("null", <<>>, 0, FALSE, <<>>, <<>>)
JStr(s) == Json("string", s, 0, FALSE, <<>>, <<>>)
JInt(n) == Json("number", <<>>, n, FALSE, <<>>, <<>>)
JBool(b) == Json("boolean", <<>>, 0, b, <<>>, <<>>)
JObj(f) == Json("object", <<>>, 0, FALSE, f, <<>>)
JArr(xs) == Json("array", <<>>, 0, FALSE, <<>>, xs)

NoResult == [k |-> "none"]

\* A property that may be left out: the empty object, or the object with that key.
Opt(key, vals) == {<<>>} \cup {key :> x : x \in vals}
Req(key, vals) == {key :> x : x \in vals}

RECURSIVE Concat(_)
Concat(ss) == IF ss = <<>> THEN <<>> ELSE Head(ss) \o Concat(Tail(ss))

RECURSIVE SeqsUpTo(_, _)
SeqsUpTo(S, n) ==
    IF n = 0 THEN {<<>>}
    ELSE LET shorter == SeqsUpTo(S, n - 1)
         IN  shorter \cup {Append(s, x) : s \in {t \in shorter : Len(t) = n - 1}, x \in S}

-----------------------------------------------------------------------------
(* Strings used by the documents *)

s_empty == <<>>
s_blank == <<" ">>
s_v1 == <<"1", ".", "0">>
s_GET == <<"G", "E", "T">>
s_get == <<"g", "e", "t">>
s_FOO == <<"F", "O", "O">>
s_none == <<"n", "o", "n", "e">>
s_basic == <<"b", "a", "s", "i", "c">>
s_bearer == <<"b", "e", "a", "r", "e", "r">>
s_inline == <<"i", "n", "l", "i", "n", "e">>
s_file == <<"f", "i", "l", "e">>
s_user == <<"u">>
s_pass == <<"p">>
s_tok == <<"t">>
s_body == <<"{", "}">>
s_fname == <<"f", ".", "j">>
s_cfgname == <<"c", "f", "g">>
s_url == <<"/", "a">>
s_pat == <<"/", "a", ".", "*">>
s_tpl == <<"/", "u", "/", "{", "i", "d", "}">>
s_tpl2 == <<"/", "{", "a", "}", "/", "{", "b", "}">>
s_http == <<"h", ":", "/", "/", "w">>
s_nourl == <<"w">>
s_id1 == <<"m", "1">>
s_id2 == <<"m", "2">>
s_scenario == <<"s", "c">>
s_started == <<"S">>
s_done == <<"D">>

-----------------------------------------------------------------------------
(* Character-level string functions *)

LowerCase == <<"a","b","c","d","e","f","g","h","i","j","k","l","m",
               "n","o","p","q","r","s","t","u","v","w","x","y","z">>
UpperCase == <<"A","B","C","D","E","F","G","H","I","J","K","L","M",
               "N","O","P","Q","R","S","T","U","V","W","X","Y","Z">>

IndexIn(c, alphabet) ==
    IF \E i \in 1..Len(alphabet) : alphabet[i] = c
    THEN CHOOSE i \in 1..Len(alphabet) : alphabet[i] = c
    ELSE 0

IsLetter(c) == IndexIn(c, LowerCase) > 0 \/ IndexIn(c, UpperCase) > 0

\* string.ToUpper() / string.ToLower()
ToUpper(s) == [i \in 1..Len(s) |->
                 IF IndexIn(s[i], LowerCase) > 0 THEN UpperCase[IndexIn(s[i], LowerCase)] ELSE s[i]]
ToLower(s) == [i \in 1..Len(s) |->
                 IF IndexIn(s[i], UpperCase) > 0 THEN LowerCase[IndexIn(s[i], UpperCase)] ELSE s[i]]

IsWhiteSpace(c) == c \in {" ", "\t", "\n", "\r"}

\* string.Replace(old, new) for a one-character old value
RECURSIVE Replace(_, _, _)
Replace(s, old, new) ==
    IF s = <<>> THEN <<>>
    ELSE (IF Head(s) = old THEN new ELSE <<Head(s)>>) \o Replace(Tail(s), old, new)

\* The characters up to the first ':' are a URL scheme: a letter, then letters,
\* digits, '+', '-' or '.'.
HasScheme(s) ==
    \E n \in 2..Len(s) :
        /\ s[n] = ":"
        /\ IsLetter(s[1])
        /\ \A i \in 2..(n - 1) : IsLetter(s[i]) \/ s[i] \in {"0","1","2","3","4","5","6","7","8","9","+","-","."}

\* new URL(data) succeeds (no base URL is given, so the text must be absolute)
ParsesAsURL(s) == HasScheme(s)

\* Uri.TryCreate(value, UriKind.Absolute, out _)
UriTryCreateAbsolute(s) == HasScheme(s)

-----------------------------------------------------------------------------
(* Validation results *)

ValidationError(p, m, sev) == [path |-> p, message |-> m, severity |-> sev]

ValidationResult(valid, errs, warns) ==
    [k |-> "result", isValid |-> valid, errors |-> errs, warnings |-> warns]

-----------------------------------------------------------------------------
(* Client: the JSON schema of the canonical dialect *)

StringSchema == [type |-> "string"]

MatcherSchema ==
    [type |-> "object",
     properties |-> [equalTo |-> StringSchema, contains |-> StringSchema, matches |-> StringSchema]]

RequestMatcherRef == ("$ref" :> "#/$defs/requestMatcherMap")

BodySchema ==
    [type |-> "object",
     properties |-> [type |-> [enum |-> {JStr(s_inline), JStr(s_file)}],
                     value |-> StringSchema,
                     fileName |-> StringSchema,
                     templating |-> [type |-> "boolean"]],
     oneOf |-> << [properties |-> [type |-> [const |-> JStr(s_inline)], value |-> StringSchema],
                   required |-> <<"type", "value">>],
                  [properties |-> [type |-> [const |-> JStr(s_file)], fileName |-> StringSchema],
                   required |-> <<"type", "fileName">>] >>]

MethodEnum == {JStr(<<"G","E","T">>), JStr(<<"P","O","S","T">>), JStr(<<"P","U","T">>),
               JStr(<<"D","E","L","E","T","E">>), JStr(<<"P","A","T","C","H">>),
               JStr(<<"H","E","A","D">>), JStr(<<"O","P","T","I","O","N","S">>),
               JStr(<<"A","N","Y">>)}

RequestSchema ==
    [type |-> "object",
     required |-> <<"method">>,
     properties |-> [method |-> [enum |-> MethodEnum],
                     url |-> StringSchema,
                     urlPattern |-> StringSchema,
                     urlPath |-> StringSchema,
                     urlPathPattern |-> StringSchema,
                     pathTemplate |-> StringSchema,
                     queryParameters |-> [type |-> "object", additionalProperties |-> MatcherSchema],
                     headers |-> RequestMatcherRef,
                     cookies |-> RequestMatcherRef,
                     bodyPatterns |->
                        [type |-> "array",
                         items |-> [type |-> "object",
                                    properties |->
                                       [equalToJson |->
                                           [type |-> "object",
                                            properties |-> [json |-> StringSchema,
                                                            ignoreExtraElements |-> [type |-> "boolean"],
                                                            ignoreArrayOrder |-> [type |-> "boolean"]]],
                                        matchesJsonPath |-> StringSchema]]]]]

ResponseSchema ==
    [type |-> "object",
     required |-> <<"status">>,
     properties |-> [status |-> [type |-> "integer"],
                     headers |-> [type |-> "object", additionalProperties |-> StringSchema],
                     fixedDelayMilliseconds |-> [type |-> "integer", minimum |-> 0],
                     proxyBaseUrl |-> [type |-> "string", format |-> "uri"],
                     body |-> BodySchema]]

MockSchema ==
    [type |-> "object",
     required |-> <<"request", "response">>,
     properties |-> [name |-> StringSchema,
                     priority |-> [type |-> "integer", minimum |-> 1],
                     request |-> RequestSchema,
                     response |-> ResponseSchema,
                     scenario |-> [type |-> "object",
                                   properties |-> [name |-> StringSchema,
                                                   requiredState |-> StringSchema,
                                                   newState |-> StringSchema]],
                     metadata |-> [type |-> "object"]]]

ATOM_SCHEMA ==
    [type |-> "object",
     required |-> <<"version", "mocks">>,
     properties |->
        [version |-> StringSchema,
         target |-> [type |-> "object",
                     required |-> <<"baseUrl">>,
                     properties |->
                        [baseUrl |-> [type |-> "string", format |-> "uri"],
                         auth |-> [type |-> "object",
                                   properties |->
                                      [type |-> [enum |-> {JStr(s_none), JStr(s_basic), JStr(s_bearer)}],
                                       username |-> StringSchema,
                                       password |-> StringSchema,
                                       token |-> StringSchema]]]],
         defaults |-> [type |-> "object",
                       properties |->
                          [priority |-> [type |-> "integer", minimum |-> 1],
                           headers |-> [type |-> "object", additionalProperties |-> StringSchema],
                           templating |-> [type |-> "object",
                                           properties |-> [enabled |-> [type |-> "boolean"]]]]],
         mocks |-> [type |-> "array", items |-> MockSchema]]]

-----------------------------------------------------------------------------
(* Client: JavaScript value semantics *)

\* typeof data
TypeOf(j) == IF j.k \in {"null", "array"} THEN "object" ELSE j.k

\* key in data, for a data that passed the 'object' type check
HasKey(j, key) == j.k = "object" /\ key \in DOMAIN j.o

\* data.key for a data that is neither null nor undefined
Prop(j, key) == IF HasKey(j, key) THEN j.o[key] ELSE JUndef

\* Reading a property of null or undefined throws a TypeError.
CanRead(j) == j.k \notin {"null", "undefined"}

Truthy(j) ==
    CASE j.k \in {"null", "undefined"} -> FALSE
      [] j.k = "string" -> j.s # <<>>
      [] j.k = "number" -> j.n # 0
      [] j.k = "boolean" -> j.b
      [] OTHER -> TRUE

Digits == <<"0", "1", "2", "3", "4", "5", "6", "7", "8", "9">>

RECURSIVE DigitsValue(_)
DigitsValue(s) ==
    IF s = <<>> THEN 0
    ELSE 10 * DigitsValue(SubSeq(s, 1, Len(s) - 1)) + (IndexIn(s[Len(s)], Digits) - 1)

NaN == [nan |-> TRUE, n |-> 0]
Num(n) == [nan |-> FALSE, n |-> n]

\* ToNumber, as the relational operators apply it to their operands
ToNumber(j) ==
    CASE j.k = "number" -> Num(j.n)
      [] j.k = "null" -> Num(0)
      [] j.k = "boolean" -> Num(IF j.b THEN 1 ELSE 0)
      [] j.k = "string" ->
            IF \A i \in 1..Len(j.s) : IsWhiteSpace(j.s[i]) THEN Num(0)
            ELSE IF \A i \in 1..Len(j.s) : IndexIn(j.s[i], Digits) > 0 THEN Num(DigitsValue(j.s))
            ELSE NaN
      [] j.k = "array" -> IF j.a = <<>> THEN Num(0) ELSE NaN
      [] OTHER -> NaN

JsLess(j, n) == ~ToNumber(j).nan /\ ToNumber(j).n < n

\* The strict comparison: j > n
JsGreater(j, n) == ~ToNumber(j).nan /\ ToNumber(j).n > n

JsGreaterEq(j, n) == ~ToNumber(j).nan /\ ToNumber(j).n >= n

\* The property names of the documents, in the order Object.entries is taken to
\* list them (the order of the keys in the JSON text is not part of the model).
KeyOrder == <<"name", "version", "baseUrl", "port", "target", "auth", "type", "username",
              "password", "token", "defaults", "priority", "headers", "templating", "enabled",
              "mocks", "mappings", "id", "request", "method", "url", "urlPattern", "urlPath",
              "urlPathPattern", "pathTemplate", "queryParameters", "cookies", "bodyPatterns",
              "response", "status", "fixedDelayMilliseconds", "proxyBaseUrl", "body", "jsonBody",
              "bodyFileName", "value", "fileName", "scenario", "requiredState", "newState",
              "metadata", "equalTo", "contains", "matches", "X-A", "X-B", "owner">>

\* Object.entries(data) for an object or an array
Entries(j) ==
    IF j.k = "array" THEN [i \in 1..Len(j.a) |-> <<ToString(i - 1), j.a[i]>>]
    ELSE LET keys == SelectSeq(KeyOrder, LAMBDA key : key \in DOMAIN j.o)
         IN  [i \in 1..Len(keys) |-> <<keys[i], j.o[keys[i]]>>]

-----------------------------------------------------------------------------
(* Client: SimpleValidator *)

TypeMismatch(data, type) ==
    CASE type = "object" -> TypeOf(data) # "object"
      [] type = "array" -> data.k # "array"
      [] type = "string" -> data.k # "string"
      [] type = "integer" -> data.k # "number"
      [] type = "boolean" -> data.k # "boolean"
      [] OTHER -> FALSE

RECURSIVE validate(_, _, _)
validate(data, schema, path) ==
    LET has(f) == f \in DOMAIN schema
        sub(key) == IF path # "" THEN path \o "." \o key ELSE key
        isObj == TypeOf(data) = "object" /\ data.k # "null"
        entries == Entries(data)
        requiredErrs ==
            IF has("required") /\ has("type") /\ schema.type = "object"
            THEN Concat([i \in 1..Len(schema.required) |->
                    IF data.k = "null" \/ ~HasKey(data, schema.required[i])
                    THEN <<ValidationError(path \o "." \o schema.required[i],
                                           "Required property is missing", "error")>>
                    ELSE <<>>])
            ELSE <<>>
        enumErrs ==
            IF has("enum") /\ data \notin schema.enum
            THEN <<ValidationError(path, "Value is not allowed", "error")>>
            ELSE <<>>
        minErrs ==
            IF has("minimum") /\ data.k = "number" /\ data.n < schema.minimum
            THEN <<ValidationError(path, "Value is less than minimum", "error")>>
            ELSE <<>>
        formatErrs ==
            IF has("format") /\ schema.format = "uri" /\ data.k = "string" /\ ~ParsesAsURL(data.s)
            THEN <<ValidationError(path, "Invalid URI format", "error")>>
            ELSE <<>>
        propsErrs ==
            IF has("properties") /\ isObj
            THEN Concat([i \in 1..Len(entries) |->
                    IF entries[i][1] \in DOMAIN schema.properties
                    THEN validate(entries[i][2], schema.properties[entries[i][1]], sub(entries[i][1]))
                    ELSE <<>>])
            ELSE <<>>
        itemsErrs ==
            IF has("items") /\ data.k = "array"
            THEN Concat([i \in 1..Len(data.a) |->
                    validate(data.a[i], schema.items, path \o "[" \o ToString(i - 1) \o "]")])
            ELSE <<>>
        addlErrs ==
            IF has("additionalProperties") /\ isObj
            THEN Concat([i \in 1..Len(entries) |->
                    IF has("properties") /\ entries[i][1] \in DOMAIN schema.properties
                    THEN <<>>
                    ELSE validate(entries[i][2], schema.additionalProperties, sub(entries[i][1]))])
            ELSE <<>>
        matching ==
            IF has("oneOf")
            THEN Cardinality({i \in 1..Len(schema.oneOf) : validate(data, schema.oneOf[i], path) = <<>>})
            ELSE 1
        oneOfErrs ==
            IF matching = 0
            THEN <<ValidationError(path, "Data does not match any of the required schemas", "error")>>
            ELSE IF matching > 1
            THEN <<ValidationError(path, "Data matches multiple schemas when only one is allowed", "error")>>
            ELSE <<>>
    IN  IF has("type") /\ TypeMismatch(data, schema.type)
        THEN <<ValidationError(path, "Expected " \o schema.type \o ", got " \o TypeOf(data), "error")>>
        ELSE requiredErrs \o enumErrs \o minErrs \o formatErrs \o propsErrs \o itemsErrs
             \o addlErrs \o oneOfErrs

-----------------------------------------------------------------------------
(* Client: ValidationService *)

MockPath(index) == "mocks[" \o ToString(index) \o "]"

\* One pass of the forEach callback over a mock that does not make it throw.
BusinessLogicOfMock(cfg, m, index) ==
    LET request == Prop(m, "request")
        resp == Prop(m, "response")
        status == Prop(resp, "status")
        body == Prop(resp, "body")
        target == Prop(cfg, "target")
        auth == IF CanRead(target) THEN Prop(target, "auth") ELSE JUndef
        hasUrlMatch == \/ Truthy(Prop(request, "url"))
                       \/ Truthy(Prop(request, "urlPattern"))
                       \/ Truthy(Prop(request, "urlPath"))
                       \/ Truthy(Prop(request, "urlPathPattern"))
                       \/ Truthy(Prop(request, "pathTemplate"))
    IN  (IF ~hasUrlMatch
         THEN <<ValidationError(MockPath(index) \o ".request",
                    "Request must have at least one URL matching property", "warning")>>
         ELSE <<>>)
        \o (IF JsLess(status, 100) \/ JsGreaterEq(status, 600)
            THEN <<ValidationError(MockPath(index) \o ".response.status",
                       "Invalid HTTP status code", "error")>>
            ELSE <<>>)
        \o (IF Truthy(body) /\ Prop(body, "type") = JStr(s_inline) /\ ~Truthy(Prop(body, "value"))
            THEN <<ValidationError(MockPath(index) \o ".response.body",
                       "Inline response body must have a value", "error")>>
            ELSE <<>>)
        \o (IF Truthy(body) /\ Prop(body, "type") = JStr(s_file) /\ ~Truthy(Prop(body, "fileName"))
            THEN <<ValidationError(MockPath(index) \o ".response.body",
                       "File response body must have a fileName", "error")>>
            ELSE <<>>)
        \o (IF /\ Truthy(auth)
               /\ Prop(auth, "type") = JStr(s_basic)
               /\ (~Truthy(Prop(auth, "username")) \/ ~Truthy(Prop(auth, "password")))
            THEN <<ValidationError("target.auth",
                       "Basic authentication requires both username and password", "error")>>
            ELSE <<>>)
        \o (IF Truthy(auth) /\ Prop(auth, "type") = JStr(s_bearer) /\ ~Truthy(Prop(auth, "token"))
            THEN <<ValidationError("target.auth",
                       "Bearer authentication requires a token", "error")>>
            ELSE <<>>)
        \o (IF /\ Truthy(Prop(request, "url"))
               /\ \/ Truthy(Prop(request, "urlPattern"))
                  \/ Truthy(Prop(request, "urlPath"))
                  \/ Truthy(Prop(request, "urlPathPattern"))
            THEN <<ValidationError(MockPath(index) \o ".request",
                       "Using both exact URL and URL patterns may cause conflicts", "warning")>>
            ELSE <<>>)

\* The callback reads mock.request.url and mock.response.status without a guard.
MockThrows(m) ==
    \/ ~CanRead(m)
    \/ ~CanRead(Prop(m, "request"))
    \/ ~CanRead(Prop(m, "response"))

\* validateBusinessLogic raises a TypeError
BusinessLogicThrows(cfg) ==
    LET mocks == Prop(cfg, "mocks")
    IN  /\ CanRead(mocks)
        /\ \/ mocks.k # "array"
           \/ \E i \in 1..Len(mocks.a) : MockThrows(mocks.a[i])

validateBusinessLogic(cfg) ==
    LET mocks == Prop(cfg, "mocks")
    IN  IF ~CanRead(mocks) THEN <<>>
        ELSE Concat([i \in 1..Len(mocks.a) |-> BusinessLogicOfMock(cfg, mocks.a[i], i - 1)])

RootError(message) ==
    ValidationResult(FALSE, <<ValidationError("root", message, "error")>>, <<>>)

\* validateATOMConfig counting every entry, warnings included, as an error
validateATOMConfigUnfiltered(cfg) ==
    IF ~Truthy(cfg) \/ TypeOf(cfg) # "object"
    THEN RootError("Invalid JSON structure")
    ELSE IF BusinessLogicThrows(cfg)
    THEN RootError("Validation error: TypeError")
    ELSE LET allErrors == validate(cfg, ATOM_SCHEMA, "") \o validateBusinessLogic(cfg)
         IN  ValidationResult(allErrors = <<>>, allErrors, <<>>)

validateATOMConfig(cfg) ==
    IF ~Truthy(cfg) \/ TypeOf(cfg) # "object"
    THEN RootError("Invalid JSON structure")
    ELSE IF BusinessLogicThrows(cfg)
    THEN RootError("Validation error: TypeError")
    ELSE LET allErrors == validate(cfg, ATOM_SCHEMA, "") \o validateBusinessLogic(cfg)
             errorList == SelectSeq(allErrors, LAMBDA e : e.severity = "error")
             warningList == SelectSeq(allErrors, LAMBDA e : e.severity = "warning")
         IN  ValidationResult(errorList = <<>>, errorList, warningList)

-----------------------------------------------------------------------------
(* Server: the typed configuration classes and JSON deserialization *)

Property(name, kind, cls, nullable, def) ==
    [name |-> name, kind |-> kind, cls |-> cls, nullable |-> nullable, def |-> def]

StringProp(name) == Property(name, "string", "", TRUE, "null")
TextProp(name) == Property(name, "string", "", TRUE, "empty")
IntProp(name) == Property(name, "int", "", TRUE, "null")
BoolProp(name) == Property(name, "bool", "", TRUE, "null")
ObjectProp(name, cls) == Property(name, "object", cls, TRUE, "null")
MapProp(name, cls) == Property(name, "map", cls, TRUE, "null")
ListProp(name, cls, def) == Property(name, "list", cls, TRUE, def)

\* The properties of each class of the Models namespace, by their JSON names.
Models ==
    [ATOMConfig |-> <<TextProp("version"), ObjectProp("target", "TargetConfig"),
                      ObjectProp("defaults", "DefaultsConfig"),
                      ListProp("mocks", "MockConfig", "list")>>,
     TargetConfig |-> <<TextProp("baseUrl"), ObjectProp("auth", "AuthConfig")>>,
     AuthConfig |-> <<TextProp("type"), StringProp("username"), StringProp("password"),
                      StringProp("token")>>,
     DefaultsConfig |-> <<IntProp("priority"), MapProp("headers", "string"),
                          ObjectProp("templating", "TemplatingConfig")>>,
     TemplatingConfig |-> <<BoolProp("enabled")>>,
     MockConfig |-> <<StringProp("name"), IntProp("priority"),
                      Property("request", "object", "MockRequest", TRUE, "new"),
                      Property("response", "object", "MockResponse", TRUE, "new"),
                      ObjectProp("scenario", "ScenarioConfig"),
                      Property("metadata", "any", "", TRUE, "null")>>,
     MockRequest |-> <<TextProp("method"), StringProp("url"), StringProp("urlPattern"),
                       StringProp("urlPath"), StringProp("urlPathPattern"),
                       StringProp("pathTemplate"), MapProp("queryParameters", "RequestMatcher"),
                       MapProp("headers", "RequestMatcher"), MapProp("cookies", "RequestMatcher"),
                       ListProp("bodyPatterns", "BodyPattern", "null")>>,
     RequestMatcher |-> <<StringProp("equalTo"), StringProp("contains"), StringProp("matches")>>,
     BodyPattern |-> <<ObjectProp("equalToJson", "EqualToJsonPattern"),
                       StringProp("matchesJsonPath")>>,
     EqualToJsonPattern |-> <<TextProp("json"), BoolProp("ignoreExtraElements"),
                              BoolProp("ignoreArrayOrder")>>,
     MockResponse |-> <<Property("status", "int", "", FALSE, "zero"), MapProp("headers", "string"),
                        ObjectProp("body", "ResponseBody"), IntProp("fixedDelayMilliseconds"),
                        StringProp("proxyBaseUrl")>>,
     ResponseBody |-> <<TextProp("type"), StringProp("value"), StringProp("fileName"),
                        BoolProp("templating")>>,
     ScenarioConfig |-> <<TextProp("name"), StringProp("requiredState"), StringProp("newState")>>,
     JsonConfig |-> <<TextProp("name"), TextProp("version"), StringProp("baseUrl"),
                      IntProp("port"), ListProp("mappings", "WiremockMapping", "list")>>,
     WiremockMapping |-> <<TextProp("id"), IntProp("priority"),
                           Property("request", "object", "WiremockRequest", TRUE, "new"),
                           Property("response", "object", "WiremockResponse", TRUE, "new"),
                           StringProp("scenarioName"), StringProp("requiredScenarioState"),
                           StringProp("newScenarioState"),
                           Property("metadata", "any", "", TRUE, "null")>>,
     WiremockRequest |-> <<TextProp("method"), StringProp("url"), StringProp("urlPattern"),
                           Property("headers", "any", "", TRUE, "null"),
                           Property("bodyPatterns", "any", "", TRUE, "null")>>,
     WiremockResponse |-> <<Property("status", "int", "", FALSE, "zero"), MapProp("headers", "string"),
                            StringProp("body"), Property("jsonBody", "any", "", TRUE, "null"),
                            StringProp("bodyFileName"), IntProp("fixedDelayMilliseconds"),
                            StringProp("proxyBaseUrl")>>]

Thrown(message) == [k |-> "throw", message |-> message]

PropertyNames(cls) == {Models[cls][i].name : i \in 1..Len(Models[cls])}
PropertyOf(cls, name) == Models[cls][CHOOSE i \in 1..Len(Models[cls]) : Models[cls][i].name = name]

\* new T(): every property at its initialiser
RECURSIVE NewObject(_, _)
NewObject(cls, new) ==
    JObj([name \in PropertyNames(cls) |->
            LET p == PropertyOf(cls, name)
            IN  CASE p.def = "empty" -> JStr(<<>>)
                  [] p.def = "zero" -> JInt(0)
                  [] p.def = "list" -> JArr(<<>>)
                  [] p.def = "new" -> IF new THEN NewObject(p.cls, new) ELSE JNull
                  [] OTHER -> JNull])

\* JsonSerializer.Deserialize<T>: a JSON null becomes null (a JsonException for a
\* value type), a value of the wrong JSON kind is a JsonException, a property the
\* text leaves out keeps its initialiser, a property the class lacks is skipped.
RECURSIVE DeserializeValue(_, _, _, _, _)
DeserializeValue(json, kind, cls, nullable, new) ==
    LET element(x) == IF cls = "string" THEN DeserializeValue(x, "string", "", TRUE, new)
                      ELSE DeserializeValue(x, "object", cls, TRUE, new)
        failed(xs) == \E i \in DOMAIN xs : xs[i].k = "throw"
    IN  CASE json.k = "null" -> IF nullable THEN JNull ELSE Thrown("JsonException")
          [] kind = "any" -> json
          [] kind = "string" -> IF json.k = "string" THEN json ELSE Thrown("JsonException")
          [] kind = "int" -> IF json.k = "number" THEN json ELSE Thrown("JsonException")
          [] kind = "bool" -> IF json.k = "boolean" THEN json ELSE Thrown("JsonException")
          [] kind = "list" ->
                IF json.k # "array" THEN Thrown("JsonException")
                ELSE LET items == [i \in 1..Len(json.a) |-> element(json.a[i])]
                     IN  IF failed(items) THEN Thrown("JsonException") ELSE JArr(items)
          [] kind = "map" ->
                IF json.k # "object" THEN Thrown("JsonException")
                ELSE LET items == [key \in DOMAIN json.o |-> element(json.o[key])]
                     IN  IF failed(items) THEN Thrown("JsonException") ELSE JObj(items)
          [] OTHER ->
                IF json.k # "object" THEN Thrown("JsonException")
                ELSE LET fresh == NewObject(cls, new)
                         props == [name \in PropertyNames(cls) |->
                                     LET p == PropertyOf(cls, name)
                                     IN  IF name \in DOMAIN json.o
                                         THEN DeserializeValue(json.o[name], p.kind, p.cls, p.nullable, new)
                                         ELSE fresh.o[name]]
                     IN  IF failed(props) THEN Thrown("JsonException") ELSE JObj(props)

Deserialize(json, cls, new) == DeserializeValue(json, "object", cls, TRUE, new)

-----------------------------------------------------------------------------
(* Server: ConfigValidationService *)

\* string.IsNullOrWhiteSpace
IsNullOrWhiteSpace(j) == j.k = "null" \/ (j.k = "string" /\ \A i \in 1..Len(j.s) : IsWhiteSpace(j.s[i]))

validMethods == {<<"G","E","T">>, <<"P","O","S","T">>, <<"P","U","T">>, <<"D","E","L","E","T","E">>,
                 <<"P","A","T","C","H">>, <<"H","E","A","D">>, <<"O","P","T","I","O","N","S">>,
                 <<"A","N","Y">>}

validAuthTypes == {s_none, s_basic, s_bearer}

When(cond, p, m, sev) == IF cond THEN <<ValidationError(p, m, sev)>> ELSE <<>>

\* The errors of one pass of the loop of ValidateATOMConfig
ATOMMockErrors(m, i) ==
    LET pathPrefix == MockPath(i)
        req == m.o.request.o
        resp == m.o.response.o
    IN  When(IsNullOrWhiteSpace(req.method),
             pathPrefix \o ".request.method", "HTTP method is required", "error")
        \o When(~IsNullOrWhiteSpace(req.method) /\ ToUpper(req.method.s) \notin validMethods,
                pathPrefix \o ".request.method", "Invalid HTTP method", "error")
        \o When(resp.status.n < 100 \/ resp.status.n >= 600,
                pathPrefix \o ".response.status", "Invalid HTTP status code", "error")
        \o When(resp.body.k # "null" /\ resp.body.o.type = JStr(s_inline)
                    /\ IsNullOrWhiteSpace(resp.body.o.value),
                pathPrefix \o ".response.body", "Inline response body must have a value", "error")
        \o When(resp.body.k # "null" /\ resp.body.o.type = JStr(s_file)
                    /\ IsNullOrWhiteSpace(resp.body.o.fileName),
                pathPrefix \o ".response.body", "File response body must have a fileName", "error")
        \o When(resp.body.k # "null" /\ resp.body.o.type # JStr(s_inline)
                    /\ resp.body.o.type # JStr(s_file),
                pathPrefix \o ".response.body.type",
                "Response body type must be 'inline' or 'file'", "error")
        \o When(resp.fixedDelayMilliseconds.k # "null" /\ resp.fixedDelayMilliseconds.n < 0,
                pathPrefix \o ".response.fixedDelayMilliseconds",
                "Fixed delay must be non-negative", "error")
        \o When(~IsNullOrWhiteSpace(resp.proxyBaseUrl) /\ ~UriTryCreateAbsolute(resp.proxyBaseUrl.s),
                pathPrefix \o ".response.proxyBaseUrl", "Invalid proxy base URL format", "error")

\* The warnings of one pass of the loop of ValidateATOMConfig
\* The warnings of a mock without the check for conflicting URL properties
ATOMMockWarningsNoConflict(m, i) ==
    LET req == m.o.request.o
        hasUrlMatch == \/ ~IsNullOrWhiteSpace(req.url)
                       \/ ~IsNullOrWhiteSpace(req.urlPattern)
                       \/ ~IsNullOrWhiteSpace(req.urlPath)
                       \/ ~IsNullOrWhiteSpace(req.urlPathPattern)
                       \/ ~IsNullOrWhiteSpace(req.pathTemplate)
    IN  When(~hasUrlMatch, MockPath(i) \o ".request",
             "Request should have at least one URL matching property", "warning")

ATOMMockWarnings(m, i) ==
    LET pathPrefix == MockPath(i)
        req == m.o.request.o
        hasUrlMatch == \/ ~IsNullOrWhiteSpace(req.url)
                       \/ ~IsNullOrWhiteSpace(req.urlPattern)
                       \/ ~IsNullOrWhiteSpace(req.urlPath)
                       \/ ~IsNullOrWhiteSpace(req.urlPathPattern)
                       \/ ~IsNullOrWhiteSpace(req.pathTemplate)
    IN  When(~hasUrlMatch, pathPrefix \o ".request",
             "Request should have at least one URL matching property", "warning")
        \o When(/\ ~IsNullOrWhiteSpace(req.url)
                /\ \/ ~IsNullOrWhiteSpace(req.urlPattern)
                   \/ ~IsNullOrWhiteSpace(req.urlPath)
                   \/ ~IsNullOrWhiteSpace(req.urlPathPattern),
                pathPrefix \o ".request",
                "Using both exact URL and URL patterns may cause conflicts", "warning")

\* The errors of the target and defaults sections
ATOMTargetErrors(cfg) ==
    LET target == cfg.o.target
        auth == target.o.auth
        defaults == cfg.o.defaults
    IN  (IF target.k = "null" THEN <<>>
         ELSE When(IsNullOrWhiteSpace(target.o.baseUrl), "target.baseUrl",
                   "Target base URL is required when target is specified", "error")
              \o When(~IsNullOrWhiteSpace(target.o.baseUrl)
                          /\ ~UriTryCreateAbsolute(target.o.baseUrl.s),
                      "target.baseUrl", "Invalid base URL format", "error")
              \o (IF auth.k = "null" THEN <<>>
                  ELSE When(ToLower(auth.o.type.s) \notin validAuthTypes,
                            "target.auth.type", "Invalid auth type", "error")
                       \o When(ToLower(auth.o.type.s) = s_basic
                                   /\ (IsNullOrWhiteSpace(auth.o.username)
                                       \/ IsNullOrWhiteSpace(auth.o.password)),
                               "target.auth",
                               "Basic authentication requires both username and password", "error")
                       \o When(ToLower(auth.o.type.s) = s_bearer /\ IsNullOrWhiteSpace(auth.o.token),
                               "target.auth", "Bearer authentication requires a token", "error")))
        \o When(defaults.k # "null" /\ defaults.o.priority.k # "null" /\ defaults.o.priority.n < 1,
                "defaults.priority", "Default priority must be 1 or greater", "error")

\* A null mock, request or response, or a null auth type, is dereferenced.
ValidateATOMConfigThrows(cfg) ==
    \/ /\ cfg.o.mocks.k # "null"
       /\ \E i \in 1..Len(cfg.o.mocks.a) :
            LET m == cfg.o.mocks.a[i]
            IN  m.k = "null" \/ m.o.request.k = "null" \/ m.o.response.k = "null"
    \/ /\ cfg.o.target.k # "null"
       /\ cfg.o.target.o.auth.k # "null"
       /\ cfg.o.target.o.auth.o.type.k = "null"

ValidateATOMConfig(cfg) ==
    LET mocks == cfg.o.mocks
        noMocks == mocks.k = "null" \/ Len(mocks.a) = 0
        errors ==
            When(IsNullOrWhiteSpace(cfg.o.version), "version", "Version is required", "error")
            \o (IF noMocks
                THEN <<ValidationError("mocks", "At least one mock is required", "error")>>
                ELSE Concat([i \in 1..Len(mocks.a) |-> ATOMMockErrors(mocks.a[i], i - 1)]))
            \o ATOMTargetErrors(cfg)
        warnings ==
            IF noMocks THEN <<>>
            ELSE Concat([i \in 1..Len(mocks.a) |-> ATOMMockWarnings(mocks.a[i], i - 1)])
    IN  IF ValidateATOMConfigThrows(cfg) THEN Thrown("NullReferenceException")
        ELSE ValidationResult(Len(errors) = 0, errors, warnings)

MappingPath(i) == "mappings[" \o ToString(i) \o "]"

LegacyMappingErrors(m, i) ==
    LET pathPrefix == MappingPath(i)
        req == m.o.request.o
        resp == m.o.response.o
    IN  When(IsNullOrWhiteSpace(req.method),
             pathPrefix \o ".request.method", "HTTP method is required", "error")
        \o When(IsNullOrWhiteSpace(req.url) /\ IsNullOrWhiteSpace(req.urlPattern),
                pathPrefix \o ".request", "Either URL or URL pattern is required", "error")
        \o When(resp.status.n < 100 \/ resp.status.n > 599,
                pathPrefix \o ".response.status",
                "HTTP status code must be between 100 and 599", "error")

LegacyMappingWarnings(m, i) ==
    LET pathPrefix == MappingPath(i)
        req == m.o.request.o
        resp == m.o.response.o
        bodyCount == (IF ~IsNullOrWhiteSpace(resp.body) THEN 1 ELSE 0)
                     + (IF resp.jsonBody.k # "null" THEN 1 ELSE 0)
                     + (IF ~IsNullOrWhiteSpace(resp.bodyFileName) THEN 1 ELSE 0)
    IN  When(~IsNullOrWhiteSpace(req.url) /\ ~IsNullOrWhiteSpace(req.urlPattern),
             pathPrefix \o ".request",
             "Both URL and URL pattern specified, URL pattern will take precedence", "warning")
        \o When(bodyCount > 1, pathPrefix \o ".response",
                "Multiple response body types specified, only one will be used", "warning")

ValidateConfigThrows(cfg) ==
    /\ cfg.o.mappings.k # "null"
    /\ \E i \in 1..Len(cfg.o.mappings.a) :
         LET m == cfg.o.mappings.a[i]
         IN  m.k = "null" \/ m.o.request.k = "null" \/ m.o.response.k = "null"

\* ValidateConfig with a validity that takes the warnings into account
ValidateConfigStrict(cfg) ==
    LET mappings == cfg.o.mappings
        noMappings == mappings.k = "null" \/ Len(mappings.a) = 0
        errors ==
            When(IsNullOrWhiteSpace(cfg.o.name), "name", "Configuration name is required", "error")
            \o (IF noMappings
                THEN <<ValidationError("mappings", "At least one mapping is required", "error")>>
                ELSE Concat([i \in 1..Len(mappings.a) |-> LegacyMappingErrors(mappings.a[i], i - 1)]))
        warnings ==
            When(IsNullOrWhiteSpace(cfg.o.version), "version",
                 "Configuration version is recommended", "warning")
            \o (IF noMappings THEN <<>>
                ELSE Concat([i \in 1..Len(mappings.a) |-> LegacyMappingWarnings(mappings.a[i], i - 1)]))
    IN  IF ValidateConfigThrows(cfg) THEN Thrown("NullReferenceException")
        ELSE ValidationResult(Len(errors) = 0 /\ Len(warnings) = 0, errors, warnings)

ValidateConfig(cfg) ==
    LET mappings == cfg.o.mappings
        noMappings == mappings.k = "null" \/ Len(mappings.a) = 0
        errors ==
            When(IsNullOrWhiteSpace(cfg.o.name), "name", "Configuration name is required", "error")
            \o (IF noMappings
                THEN <<ValidationError("mappings", "At least one mapping is required", "error")>>
                ELSE Concat([i \in 1..Len(mappings.a) |-> LegacyMappingErrors(mappings.a[i], i - 1)]))
        warnings ==
            When(IsNullOrWhiteSpace(cfg.o.version), "version",
                 "Configuration version is recommended", "warning")
            \o (IF noMappings THEN <<>>
                ELSE Concat([i \in 1..Len(mappings.a) |-> LegacyMappingWarnings(mappings.a[i], i - 1)]))
    IN  IF ValidateConfigThrows(cfg) THEN Thrown("NullReferenceException")
        ELSE ValidationResult(Len(errors) = 0, errors, warnings)

\* jsonElement.TryGetProperty("mocks", ...) && mocksProperty.ValueKind == Array
IsAtomConfig(json) == HasKey(json, "mocks") /\ json.o.mocks.k = "array"

\* The validation of the typed configuration, or what its deserialization raised
ValidateTyped(atom, typed) ==
    IF typed.k = "throw" THEN typed
    ELSE IF typed.k = "null"
    THEN RootError(IF atom THEN "Failed to deserialize ATOM config"
                   ELSE "Failed to deserialize legacy config")
    ELSE IF atom THEN ValidateATOMConfig(typed)
    ELSE ValidateConfig(typed)

\* What the try block of ValidateConfigFromJson yields: a result, or the exception
\* raised in it (TryGetProperty raises on a JsonElement that is not an object).
ValidateConfigFromJsonTry(json, new) ==
    IF json.k # "object" THEN Thrown("InvalidOperationException")
    ELSE ValidateTyped(IsAtomConfig(json),
                       Deserialize(json, IF IsAtomConfig(json) THEN "ATOMConfig" ELSE "JsonConfig", new))

\* ValidateConfigFromJson without its catch clauses
CatchNothing(r) == r

\* The catch clauses of ValidateConfigFromJson
CatchValidation(r) ==
    IF r.k # "throw" THEN r
    ELSE IF r.message = "JsonException" THEN RootError("JSON parsing error: " \o r.message)
    ELSE RootError("Validation error: " \o r.message)

ValidateConfigFromJson(json, new) == CatchValidation(ValidateConfigFromJsonTry(json, new))

-----------------------------------------------------------------------------
(* Server: MappingService *)

RECURSIVE ToDigits(_)
ToDigits(n) == IF n < 10 THEN <<Digits[n + 1]>> ELSE ToDigits(n \div 10) \o <<Digits[(n % 10) + 1]>>

\* The n-th value of Guid.NewGuid().ToString(): never blank, never handed out twice
Guid(n) == JStr(<<"g">> \o ToDigits(n))

With(obj, key, value) == JObj((key :> value) @@ obj.o)

\* A dictionary entry per key of a map, or none for a null map
MapKeys(m) == IF m.k = "null" THEN {} ELSE DOMAIN m.o

\* The request header matchers: the defaults as equalTo matchers, overlaid by the
\* matchers of the mock, of which only the non-blank fields are copied
RequestHeaders(m, cfg) ==
    LET defaults == IF cfg.o.defaults.k = "null" THEN JNull ELSE cfg.o.defaults.o.headers
        own == m.o.request.o.headers
        matcher(h) == JObj([f \in {g \in {"equalTo", "contains", "matches"} :
                                     ~IsNullOrWhiteSpace(h.o[g])} |-> h.o[f]])
        headers == [key \in MapKeys(defaults) \cup MapKeys(own) |->
                      IF key \in MapKeys(own) THEN matcher(own.o[key])
                      ELSE JObj("equalTo" :> defaults.o[key])]
    IN  IF DOMAIN headers = {} THEN JNull ELSE JObj(headers)

\* The response headers with the defaults laid over the headers of the mock
ResponseHeadersDefaultsWin(m, cfg) ==
    LET defaults == IF cfg.o.defaults.k = "null" THEN JNull ELSE cfg.o.defaults.o.headers
        own == m.o.response.o.headers
        headers == [key \in MapKeys(defaults) \cup MapKeys(own) |->
                      IF key \in MapKeys(defaults) THEN defaults.o[key] ELSE own.o[key]]
    IN  IF DOMAIN headers = {} THEN JNull ELSE JObj(headers)

ResponseHeaders(m, cfg) ==
    LET defaults == IF cfg.o.defaults.k = "null" THEN JNull ELSE cfg.o.defaults.o.headers
        own == m.o.response.o.headers
        headers == [key \in MapKeys(defaults) \cup MapKeys(own) |->
                      IF key \in MapKeys(own) THEN own.o[key] ELSE defaults.o[key]]
    IN  IF DOMAIN headers = {} THEN JNull ELSE JObj(headers)

BodyPatterns(req) ==
    LET ps == req.o.bodyPatterns
        one(p) ==
            IF p.o.equalToJson.k # "null"
            THEN <<JObj([f \in {"equalToJson"}
                            \cup {g \in {"ignoreExtraElements", "ignoreArrayOrder"} :
                                    p.o.equalToJson.o[g].k # "null"} |->
                         IF f = "equalToJson" THEN p.o.equalToJson.o.json
                         ELSE p.o.equalToJson.o[f]])>>
            ELSE IF ~IsNullOrWhiteSpace(p.o.matchesJsonPath)
            THEN <<JObj("matchesJsonPath" :> p.o.matchesJsonPath)>>
            ELSE <<>>
    IN  IF ps.k = "null" \/ Len(ps.a) = 0 THEN JNull
        ELSE JArr(Concat([i \in 1..Len(ps.a) |-> one(ps.a[i])]))

\* The path template with each '{' replaced by the capture group and each '}' dropped
TemplateToPattern(template) == Replace(Replace(template, "{", <<"(", "[", "^", "/", "]", "+", ")">>), "}", <<>>)

\* The resolution that looks at the path template before the URL path
UrlMatchingTemplateFirst(req) ==
    IF ~IsNullOrWhiteSpace(req.o.url) THEN <<req.o.url, JNull>>
    ELSE IF ~IsNullOrWhiteSpace(req.o.urlPattern) THEN <<JNull, req.o.urlPattern>>
    ELSE IF ~IsNullOrWhiteSpace(req.o.pathTemplate)
    THEN <<JNull, JStr(TemplateToPattern(req.o.pathTemplate.s))>>
    ELSE IF ~IsNullOrWhiteSpace(req.o.urlPath) THEN <<req.o.urlPath, JNull>>
    ELSE IF ~IsNullOrWhiteSpace(req.o.urlPathPattern) THEN <<JNull, req.o.urlPathPattern>>
    ELSE <<JNull, JNull>>

\* The (Url, UrlPattern) pair of the emitted request
UrlMatching(req) ==
    IF ~IsNullOrWhiteSpace(req.o.url) THEN <<req.o.url, JNull>>
    ELSE IF ~IsNullOrWhiteSpace(req.o.urlPattern) THEN <<JNull, req.o.urlPattern>>
    ELSE IF ~IsNullOrWhiteSpace(req.o.urlPath) THEN <<req.o.urlPath, JNull>>
    ELSE IF ~IsNullOrWhiteSpace(req.o.urlPathPattern) THEN <<JNull, req.o.urlPathPattern>>
    ELSE IF ~IsNullOrWhiteSpace(req.o.pathTemplate)
    THEN <<JNull, JStr(TemplateToPattern(req.o.pathTemplate.s))>>
    ELSE <<JNull, JNull>>

\* The priority taken from the defaults before the mock
DefaultPriorityFirst(m, cfg) ==
    IF cfg.o.defaults.k # "null" /\ cfg.o.defaults.o.priority.k # "null"
    THEN cfg.o.defaults.o.priority
    ELSE m.o.priority

\* Priority = mock.Priority ?? config.Defaults?.Priority
ResolvePriority(m, cfg) ==
    IF m.o.priority.k # "null" THEN m.o.priority
    ELSE IF cfg.o.defaults.k # "null" THEN cfg.o.defaults.o.priority
    ELSE JNull

\* The body resolution that sets the file name of every body that names one
ResolveBodyAnyFileName(body) ==
    IF body.k = "null" THEN <<JNull, JNull>>
    ELSE IF body.o.type = JStr(s_inline) THEN <<body.o.value, body.o.fileName>>
    ELSE IF body.o.type = JStr(s_file) THEN <<JNull, body.o.fileName>>
    ELSE <<JNull, JNull>>

\* The (Body, BodyFileName) pair of the emitted response
ResolveBody(body) ==
    IF body.k = "null" THEN <<JNull, JNull>>
    ELSE IF body.o.type = JStr(s_inline) THEN <<body.o.value, JNull>>
    ELSE IF body.o.type = JStr(s_file) THEN <<JNull, body.o.fileName>>
    ELSE <<JNull, JNull>>

ConvertToWiremockMapping(m, cfg, guid) ==
    LET fresh == NewObject("WiremockMapping", TRUE)
        scenario == m.o.scenario
        body == ResolveBody(m.o.response.o.body)
        urls == UrlMatching(m.o.request)
        request == [fresh.o.request.o EXCEPT
                        !.method = m.o.request.o.method,
                        !.url = urls[1],
                        !.urlPattern = urls[2],
                        !.headers = RequestHeaders(m, cfg),
                        !.bodyPatterns = BodyPatterns(m.o.request)]
        resp == [fresh.o.response.o EXCEPT
                        !.status = m.o.response.o.status,
                        !.headers = ResponseHeaders(m, cfg),
                        !.body = body[1],
                        !.bodyFileName = body[2]]
    IN  JObj([fresh.o EXCEPT
                !.id = guid,
                !.priority = ResolvePriority(m, cfg),
                !.scenarioName = IF scenario.k = "null" THEN JNull ELSE scenario.o.name,
                !.requiredScenarioState = IF scenario.k = "null" THEN JNull ELSE scenario.o.requiredState,
                !.newScenarioState = IF scenario.k = "null" THEN JNull ELSE scenario.o.newState,
                !.request = JObj(request),
                !.response = JObj(resp)])

\* The state a call of the service works on and leaves: the store, the number of
\* GUIDs drawn, and the list it has built.
ServiceState(st, n, out) == [store |-> st, nextGuid |-> n, mappings |-> out]

\* A creation that leaves out a mapping the store holds already under another id
CreateMappingUnlessStored(st, n, m) ==
    IF \E key \in DOMAIN st : With(st[key], "id", JNull) = With(m, "id", JNull)
    THEN ServiceState(st, n, <<>>)
    ELSE ServiceState((Guid(n).s :> With(m, "id", Guid(n))) @@ st, n + 1, <<With(m, "id", Guid(n))>>)

\* A creation that stores the mapping under the id it arrives with
CreateMappingKeepingId(st, n, m) == ServiceState((m.o.id.s :> m) @@ st, n + 1, <<m>>)

\* mapping.Id = Guid.NewGuid(); _mappings[mapping.Id] = mapping; return mapping
CreateMappingAsync(st, n, m) ==
    LET created == With(m, "id", Guid(n))
    IN  ServiceState((created.o.id.s :> created) @@ st, n + 1, <<created>>)

\* _mappings.TryGetValue(id, out var mapping); return mapping
GetMappingAsync(st, id) == IF id \in DOMAIN st THEN st[id] ELSE JNull

\* An update that stores the mapping with the id it arrives with
UpdateWithoutId(st, id, m) == (id :> m) @@ st

UpdateMappingAsync(st, id, m) == (id :> With(m, "id", JStr(id))) @@ st

DeleteMappingAsync(st, id) == [key \in DOMAIN st \ {id} |-> st[key]]

\* A list that takes each created mapping at its front
CollectInFront(state, made) ==
    ServiceState(made.store, made.nextGuid, made.mappings \o state.mappings)

\* mappings.Add(created), on the state the call of CreateMappingAsync left
Collect(state, made) ==
    ServiceState(made.store, made.nextGuid, state.mappings \o made.mappings)

\* "Ensure mapping has an ID": a blank id is replaced by a new GUID
EnsureId(state, mapping) ==
    IF IsNullOrWhiteSpace(mapping.o.id)
    THEN [nextGuid |-> state.nextGuid + 1, mapping |-> With(mapping, "id", Guid(state.nextGuid))]
    ELSE [nextGuid |-> state.nextGuid, mapping |-> mapping]

CreateEnsured(state, ensured) == CreateMappingAsync(state.store, ensured.nextGuid, ensured.mapping)

\* One pass of the loop of GenerateMappingsAsync, then the rest of the list
RECURSIVE GenerateMappingsLoop(_, _)
GenerateMappingsLoop(state, rest) ==
    IF rest = <<>> THEN state
    ELSE GenerateMappingsLoop(Collect(state, CreateEnsured(state, EnsureId(state, Head(rest)))),
                              Tail(rest))

GenerateMappingsAsync(st, n, cfg) == GenerateMappingsLoop(ServiceState(st, n, <<>>), cfg.o.mappings.a)

RECURSIVE GenerateMappingsFromATOMLoop(_, _, _)
GenerateMappingsFromATOMLoop(state, rest, cfg) ==
    IF rest = <<>> THEN state
    ELSE GenerateMappingsFromATOMLoop(
             Collect(state,
                     CreateMappingAsync(state.store, state.nextGuid + 1,
                                        ConvertToWiremockMapping(Head(rest), cfg, Guid(state.nextGuid)))),
             Tail(rest), cfg)

GenerateMappingsFromATOMAsync(st, n, cfg) ==
    GenerateMappingsFromATOMLoop(ServiceState(st, n, <<>>), cfg.o.mocks.a, cfg)

-----------------------------------------------------------------------------
(* Server: WiremockAdminService *)

CreateCall(m, ok) == [mapping |-> m, ok |-> ok]

DeployState(calls, created, failures) ==
    [calls |-> calls, createdMappings |-> created, failures |-> failures]

\* "{Method} {Url ?? UrlPattern}"
MappingDescription(m) ==
    <<m.o.request.o.method,
      IF m.o.request.o.url.k # "null" THEN m.o.request.o.url ELSE m.o.request.o.urlPattern>>

\* The loop of CreateMappingsAsync without its try: the first failing create-call
\* ends the deployment
RECURSIVE CreateMappingsUntilFailure(_, _, _, _)
CreateMappingsUntilFailure(state, rest, pos, failing) ==
    IF rest = <<>> THEN state
    ELSE IF pos \in failing
    THEN DeployState(Append(state.calls, CreateCall(Head(rest), FALSE)), state.createdMappings,
                     state.failures)
    ELSE CreateMappingsUntilFailure(
             DeployState(Append(state.calls, CreateCall(Head(rest), TRUE)),
                         Append(state.createdMappings, Head(rest)), state.failures),
             Tail(rest), pos + 1, failing)

\* One pass of the loop of CreateMappingsAsync, then the rest of the list.  The
\* create-call at a position of failing raises (the remote rejects the POST, or
\* cannot be reached); the remote answers the others with the mapping it was sent.
RECURSIVE CreateMappingsLoop(_, _, _, _)
CreateMappingsLoop(state, rest, pos, failing) ==
    IF rest = <<>> THEN state
    ELSE LET ok == pos \notin failing
             calls == Append(state.calls, CreateCall(Head(rest), ok))
         IN  CreateMappingsLoop(
                 IF ok
                 THEN DeployState(calls, Append(state.createdMappings, Head(rest)), state.failures)
                 ELSE DeployState(calls, state.createdMappings,
                                  Append(state.failures,
                                         [description |-> MappingDescription(Head(rest)),
                                          message |-> "HttpRequestException"])),
                 Tail(rest), pos + 1, failing)

CreateMappingsAsync(mappings, failing) ==
    CreateMappingsLoop(DeployState(<<>>, <<>>, <<>>), mappings, 1, failing)

-----------------------------------------------------------------------------
(* Server: ConfigController *)

HttpResponse(status, body) == [k |-> "response", status |-> status, body |-> body]

\* What a controller call leaves: its response, the store, the GUIDs drawn, the
\* create-calls it issued and what the admin service returned to it.
Handled(resp, state, calls, returned) ==
    [response |-> resp, store |-> state.store, nextGuid |-> state.nextGuid,
     remote |-> calls, deployed |-> returned]

ValidationFailed(validation) ==
    HttpResponse(400, [success |-> FALSE, message |-> "Configuration validation failed",
                       validation |-> validation])

\* A controller taking every document that carries a mappings member for the legacy dialect
ClassifyByMappings(configJson) == ~HasKey(configJson, "mappings")

\* isAtomConfig of the two controller actions: the mocks member is an array
ControllerIsAtomConfig(configJson) == HasKey(configJson, "mocks") /\ configJson.o.mocks.k = "array"

\* The typed configuration the controller deserializes, by the dialect of the document
TypedConfig(json, new) ==
    Deserialize(json, IF ControllerIsAtomConfig(json) THEN "ATOMConfig" ELSE "JsonConfig", new)

\* The generation both endpoints run on a document that passed validation
GenerateTyped(atom, typed, st, n) ==
    IF atom THEN GenerateMappingsFromATOMAsync(st, n, typed)
    ELSE GenerateMappingsAsync(st, n, typed)

GenerateFor(json, st, n, new) ==
    GenerateTyped(ControllerIsAtomConfig(json), TypedConfig(json, new), st, n)

\* GenerateMappings rejecting only the documents whose validation failed at the root
GenerateValidatedRootOnly(validationResult, generated, st, n) ==
    IF ~validationResult.isValid /\ validationResult.errors[1].path = "root"
    THEN Handled(ValidationFailed(validationResult), ServiceState(st, n, <<>>), <<>>, NoResult)
    ELSE Handled(HttpResponse(200, [mappings |-> generated.mappings]), generated, <<>>, NoResult)

GenerateValidated(validationResult, generated, st, n) ==
    IF ~validationResult.isValid
    THEN Handled(ValidationFailed(validationResult), ServiceState(st, n, <<>>), <<>>, NoResult)
    ELSE Handled(HttpResponse(200, [mappings |-> generated.mappings]), generated, <<>>, NoResult)

GenerateMappingsHandler(json, st, n, new) ==
    GenerateValidated(ValidateConfigFromJson(json, new), GenerateFor(json, st, n, new), st, n)

\* "http://localhost:8080"
s_localhost == <<"h", "t", "t", "p", ":", "/", "/", "l", "o", "c", "a", "l", "h", "o", "s", "t",
                 ":", "8", "0", "8", "0">>

NoTarget(atom, typed) ==
    atom /\ (typed.o.target.k = "null" \/ IsNullOrWhiteSpace(typed.o.target.o.baseUrl))

TargetBaseUrl(atom, typed) ==
    IF atom THEN typed.o.target.o.baseUrl.s
    ELSE IF typed.o.baseUrl.k # "null" THEN typed.o.baseUrl.s
    ELSE s_localhost

\* The response to a deployment, from what CreateMappingsAsync returned
Deployed(validationResult, targetBaseUrl, deployedMappings) ==
    HttpResponse(200,
        [success |-> TRUE,
         message |-> "Successfully validated and deployed",
         validation |-> validationResult,
         deployed |->
            [target |-> targetBaseUrl,
             mappingsCount |-> Len(deployedMappings),
             mappings |-> [i \in 1..Len(deployedMappings) |->
                             [id |-> deployedMappings[i].o.id,
                              method |-> deployedMappings[i].o.request.o.method,
                              url |-> MappingDescription(deployedMappings[i])[2]]]]])

DeployGenerated(validationResult, targetBaseUrl, generated, deployment) ==
    Handled(Deployed(validationResult, targetBaseUrl, deployment.createdMappings),
            generated, deployment.calls,
            [k |-> "returned", mappings |-> deployment.createdMappings])

DeployValidated(validationResult, atom, typed, generated, st, n, failing) ==
    IF ~validationResult.isValid
    THEN Handled(ValidationFailed(validationResult), ServiceState(st, n, <<>>), <<>>, NoResult)
    ELSE IF NoTarget(atom, typed)
    THEN Handled(HttpResponse(400, [success |-> FALSE,
                                    message |-> "Target baseUrl is required for ATOM config"]),
                 ServiceState(st, n, <<>>), <<>>, NoResult)
    ELSE DeployGenerated(validationResult, TargetBaseUrl(atom, typed), generated,
                         CreateMappingsAsync(generated.mappings, failing))

ValidateAndDeployHandler(json, st, n, new, failing) ==
    DeployValidated(ValidateConfigFromJson(json, new), ControllerIsAtomConfig(json),
                    TypedConfig(json, new),
                    GenerateFor(json, st, n, new), st, n, failing)

-----------------------------------------------------------------------------
(* The documents submitted *)

ValidRequest == JObj([method |-> JStr(s_GET), url |-> JStr(s_url)])
ValidResponse == JObj([status |-> JInt(200)])
ValidMock == JObj([request |-> ValidRequest, response |-> ValidResponse])
ValidTarget == JObj([baseUrl |-> JStr(s_http)])

RequestVariants ==
    {JObj(m @@ [url |-> JStr(s_url)]) :
        m \in Opt("method", {JStr(s_GET), JStr(s_get), JStr(s_FOO), JStr(s_blank)})}
    \cup {JObj([method |-> JStr(s_GET)] @@ u @@ q) :
            u \in Opt("url", {JStr(s_url)}), q \in Opt("urlPattern", {JStr(s_pat)})}

ResponseVariants ==
    {JObj(c) : c \in Opt("status", {JInt(99), JInt(100), JInt(599), JInt(600)})}
    \cup {JObj([status |-> JInt(200), body |-> JObj(t @@ v @@ f)]) :
            t \in Req("type", {JStr(s_inline), JStr(s_file)}),
            v \in Opt("value", {JStr(s_body)}),
            f \in Opt("fileName", {JStr(s_fname)})}

MockVariants ==
    {JObj(r @@ [response |-> ValidResponse]) : r \in Opt("request", RequestVariants)}
    \cup {JObj([request |-> ValidRequest] @@ r) : r \in Opt("response", ResponseVariants)}
    \cup {JNull}

SimpleMocks == {ValidMock, JObj([request |-> ValidRequest, response |-> JObj([status |-> JInt(600)])])}

\* Lists of at most MaxMocks mocks, one of which varies over every variant
MockLists ==
    SeqsUpTo(SimpleMocks, MaxMocks)
    \cup {pre \o <<m>> \o post :
            pre \in SeqsUpTo(SimpleMocks, MaxMocks - 1),
            post \in SeqsUpTo(SimpleMocks, MaxMocks - 1),
            m \in MockVariants}

AuthVariants ==
    {JObj(t @@ u @@ w) :
        t \in Opt("type", {JStr(s_none), JStr(s_basic), JStr(s_FOO)}),
        u \in Opt("username", {JStr(s_user)}),
        w \in Opt("password", {JStr(s_pass)})}
    \cup {JObj([type |-> JStr(s_bearer)] @@ t) : t \in Opt("token", {JStr(s_tok), JStr(s_blank)})}

TargetVariants ==
    {JObj(b @@ a) :
        b \in Opt("baseUrl", {JStr(s_http), JStr(s_nourl), JStr(s_blank)}),
        a \in Opt("auth", AuthVariants)}

\* Documents of the mock dialect: every mock variant without a target, and every
\* target variant over lists of valid mocks
AtomDocs ==
    {JObj(v @@ [mocks |-> JArr(ms)]) :
        v \in Opt("version", {JStr(s_v1), JStr(s_blank)}),
        ms \in {l \in MockLists : Len(l) <= MaxMocks}}
    \cup {JObj([version |-> JStr(s_v1), mocks |-> JArr(ms)] @@ t) :
            t \in Req("target", TargetVariants), ms \in SeqsUpTo({ValidMock}, MaxMocks)}

LegacyMapping(id) ==
    JObj(id @@ [request |-> ValidRequest, response |-> ValidResponse])

LegacyMappingVariants ==
    {LegacyMapping(id) : id \in Opt("id", {JStr(s_id1), JStr(s_blank)})}
    \cup {JObj([request |-> r, response |-> ValidResponse]) :
            r \in {JObj([method |-> JStr(s_GET)]),
                   JObj([method |-> JStr(s_GET), url |-> JStr(s_url), urlPattern |-> JStr(s_pat)])}}
    \cup {JObj([request |-> ValidRequest, response |-> r]) :
            r \in {JObj([status |-> JInt(600)]),
                   JObj([status |-> JInt(200), body |-> JStr(s_body), bodyFileName |-> JStr(s_fname)])}}
    \cup {JObj([response |-> ValidResponse]), JNull}

LegacyDocs ==
    {JObj(nm @@ v @@ ms) :
        nm \in Opt("name", {JStr(s_cfgname)}),
        v \in Opt("version", {JStr(s_v1)}),
        ms \in Opt("mappings", {JArr(l) : l \in SeqsUpTo(LegacyMappingVariants, MaxMocks)})}

\* Documents whose root is not an object, or whose mocks member is not an array
OddDocs ==
    {JNull, JStr(s_v1), JInt(1), JBool(TRUE), JArr(<<>>), JArr(<<ValidMock>>)}
    \cup {JObj([version |-> JStr(s_v1), mocks |-> m]) :
            m \in {JNull, JObj(<<>>), JStr(s_v1), JArr(<<JInt(1)>>), JArr(<<JArr(<<>>)>>)}}
    \cup {JObj([version |-> JInt(1), mocks |-> JArr(<<ValidMock>>)]),
          JObj([name |-> JInt(1), mappings |-> JArr(<<LegacyMapping(<<>>)>>)])}

ValDocs == AtomDocs \cup LegacyDocs \cup OddDocs

\* Valid mocks whose URL matcher fields are each absent, blank or set
UrlMatcherMocks ==
    {JObj([request |-> JObj([method |-> JStr(s_GET)] @@ u @@ q @@ w @@ x @@ t),
           response |-> ValidResponse]) :
        u \in Opt("url", {JStr(s_url), JStr(s_blank)}),
        q \in Opt("urlPattern", {JStr(s_pat)}),
        w \in Opt("urlPath", {JStr(s_url), JStr(s_empty)}),
        x \in Opt("urlPathPattern", {JStr(s_pat)}),
        t \in Opt("pathTemplate", {JStr(s_tpl), JStr(s_tpl2), JStr(s_url)})}

\* Valid mocks with and without a scenario, a metadata map, a delay and a proxy
PassThroughMocks ==
    {JObj([request |-> ValidRequest, response |-> JObj([status |-> JInt(200)] @@ dl @@ px)]
          @@ sc @@ md) :
        sc \in Opt("scenario", {JObj([name |-> JStr(s_scenario)] @@ rs @@ ns) :
                                    rs \in Opt("requiredState", {JStr(s_started)}),
                                    ns \in Opt("newState", {JStr(s_done)})}),
        md \in Opt("metadata", {JObj([owner |-> JStr(s_user)])}),
        dl \in Opt("fixedDelayMilliseconds", {JInt(100)}),
        px \in Opt("proxyBaseUrl", {JStr(s_http)})}

\* Valid mocks with and without a priority, header maps and a response body
DefaultedMocks ==
    {JObj([request |-> JObj([method |-> JStr(s_GET), url |-> JStr(s_url)] @@ qh),
           response |-> JObj([status |-> JInt(200)] @@ rh @@ b)] @@ p) :
        p \in Opt("priority", {JInt(0), JInt(7)}),
        qh \in Opt("headers", {JObj([a |-> JObj([contains |-> JStr(s_pass)]),
                                     c |-> JObj([equalTo |-> JStr(s_pass)])])}),
        rh \in Opt("headers", {JObj([a |-> JStr(s_pass), c |-> JStr(s_pass)])}),
        b \in Opt("body", {JObj([type |-> JStr(s_inline), value |-> JStr(s_body)]),
                           JObj([type |-> JStr(s_inline), value |-> JStr(s_body),
                                 fileName |-> JStr(s_fname)]),
                           JObj([type |-> JStr(s_file), fileName |-> JStr(s_fname)])})}

\* The defaults sections: a priority and header values for every request and response
DefaultsVariants ==
    {JObj(p @@ h) :
        p \in Opt("priority", {JInt(0), JInt(5)}),
        h \in Opt("headers", {JObj([a |-> JStr(s_user), b |-> JStr(s_user)])})}

\* Documents of one varying mock followed by a mock of priority 2, with and without defaults
DefaultedDocs ==
    {JObj([version |-> JStr(s_v1),
           mocks |-> JArr(<<m, JObj([priority |-> JInt(2), request |-> ValidRequest,
                                     response |-> ValidResponse])>>)] @@ d) :
        m \in DefaultedMocks, d \in Opt("defaults", DefaultsVariants)}

TransformDocs ==
    {JObj([version |-> JStr(s_v1), mocks |-> JArr(pre \o <<m>>)]) :
        pre \in SeqsUpTo({ValidMock}, MaxMocks - 1), m \in UrlMatcherMocks \cup PassThroughMocks}
    \cup DefaultedDocs

\* Documents sent to the generating and deploying endpoints: batches of at most
\* MaxBatch mocks or mappings, valid and invalid
SysDocs ==
    {JObj([version |-> JStr(s_v1), target |-> ValidTarget, mocks |-> JArr(ms)]) :
        ms \in SeqsUpTo({ValidMock}, MaxBatch) \ {<<>>}}
    \cup {JObj([name |-> JStr(s_cfgname), mappings |-> JArr(ms)]) :
            ms \in SeqsUpTo({LegacyMapping(id) : id \in Opt("id", {JStr(s_id1)})}, MaxBatch - 1)}
    \cup {JObj([version |-> JStr(s_v1), mocks |-> JArr(<<ValidMock>>)]),
          JObj([version |-> JStr(s_v1), target |-> ValidTarget,
                mocks |-> JArr(<<ValidMock, JObj([request |-> ValidRequest,
                                                  response |-> JObj([status |-> JInt(600)])])>>)]),
          JObj([version |-> JStr(s_v1),
                target |-> JObj([baseUrl |-> JStr(s_http), auth |-> JObj([type |-> JStr(s_basic)])]),
                mocks |-> JArr(<<ValidMock>>)]),
          JObj([mappings |-> JArr(<<LegacyMapping(<<>>)>>)]),
          JObj([version |-> JStr(s_v1), name |-> JStr(s_cfgname), target |-> ValidTarget,
                mocks |-> JArr(<<ValidMock>>),
                mappings |-> JArr(<<LegacyMapping(<<>>), LegacyMapping(<<>>)>>)]),
          JObj([name |-> JStr(s_cfgname), mocks |-> JStr(s_v1),
                mappings |-> JArr(<<LegacyMapping(<<>>)>>)]),
          JInt(1)}

\* The number of mocks or mappings a document carries
BatchSize(d) ==
    IF d.k # "object" THEN 0
    ELSE IF IsAtomConfig(d) THEN Len(d.o.mocks.a)
    ELSE IF HasKey(d, "mappings") /\ d.o.mappings.k = "array" THEN Len(d.o.mappings.a)
    ELSE 0

-----------------------------------------------------------------------------
(* The service handling requests *)

Init ==
    /\ doc = NoResult
    /\ modelsNew \in BOOLEAN
    /\ srvResult = NoResult
    /\ cliResult = NoResult
    /\ store = <<>>
    /\ nextGuid = 0
    /\ remote = <<>>
    /\ fails = {}
    /\ response = NoResult
    /\ deployed = NoResult
    /\ pending = {}
    /\ deleted = {}

\* A request is taken while fewer than MaxGuid GUIDs have been drawn.
Handle(d, failing, handled) ==
    /\ nextGuid < MaxGuid
    /\ doc' = d
    /\ fails' = failing
    /\ srvResult' = ValidateConfigFromJson(d, modelsNew)
    /\ response' = handled.response
    /\ store' = handled.store
    /\ nextGuid' = handled.nextGuid
    /\ remote' = handled.remote
    /\ deployed' = handled.deployed
    /\ UNCHANGED <<modelsNew, cliResult, pending, deleted>>

\* POST api/config/generate-mappings
GenerateMappings(d) ==
    Handle(d, {}, GenerateMappingsHandler(d, store, nextGuid, modelsNew))

\* POST api/config/validate-and-deploy, the create-calls at the positions of
\* failing being the ones that fail
ValidateAndDeployConfig(d, failing) ==
    Handle(d, failing, ValidateAndDeployHandler(d, store, nextGuid, modelsNew, failing))

Next ==
    \/ \E d \in SysDocs : GenerateMappings(d)
    \/ \E d \in SysDocs : \E failing \in SUBSET (1..BatchSize(d)) : ValidateAndDeployConfig(d, failing)

Spec == Init /\ [][Next]_vars

-----------------------------------------------------------------------------
(* One document, validated by the server and by the client *)

InitValidate ==
    /\ doc \in ValDocs
    /\ modelsNew \in BOOLEAN
    /\ srvResult = NoResult
    /\ cliResult = NoResult
    /\ store = <<>>
    /\ nextGuid = 0
    /\ remote = <<>>
    /\ fails = {}
    /\ response = NoResult
    /\ deployed = NoResult
    /\ pending = {}
    /\ deleted = {}

\* POST api/config/validate
ValidateConfigEndpoint ==
    /\ srvResult = NoResult
    /\ srvResult' = ValidateConfigFromJson(doc, modelsNew)
    /\ response' = HttpResponse(200, srvResult')
    /\ UNCHANGED <<doc, modelsNew, cliResult, store, nextGuid, remote, fails, deployed, pending, deleted>>

\* ValidationService.validateATOMConfig in the browser
ClientValidate ==
    /\ cliResult = NoResult
    /\ cliResult' = validateATOMConfig(doc)
    /\ UNCHANGED <<doc, modelsNew, srvResult, store, nextGuid, remote, fails, response, deployed,
                   pending, deleted>>

NextValidate == ValidateConfigEndpoint \/ ClientValidate

SpecValidate == InitValidate /\ [][NextValidate]_vars

-----------------------------------------------------------------------------
(* One document of the mock dialect, transformed *)

InitTransform ==
    /\ doc \in TransformDocs
    /\ modelsNew \in BOOLEAN
    /\ srvResult = NoResult
    /\ cliResult = NoResult
    /\ store = <<>>
    /\ nextGuid = 0
    /\ remote = <<>>
    /\ fails = {}
    /\ response = NoResult
    /\ deployed = NoResult
    /\ pending = {}
    /\ deleted = {}

GenerateFromDoc ==
    /\ response = NoResult
    /\ GenerateMappings(doc)

NextTransform == GenerateFromDoc

SpecTransform == InitTransform /\ [][NextTransform]_vars

-----------------------------------------------------------------------------
(* The mapping store behind MappingsController and the generating endpoint,
   with requests handled concurrently *)

\* The mappings posted and put: without id, with an id of their own, with another status
PostedMappings ==
    {Deserialize(j, "WiremockMapping", TRUE) :
        j \in {LegacyMapping(<<>>), LegacyMapping("id" :> JStr(s_id1)),
               JObj([request |-> ValidRequest, response |-> JObj([status |-> JInt(404)])])}}

\* The ids requests name: the ids in the store, and one that was never stored
RequestedIds == DOMAIN store \cup {s_id1}

StoreDocs ==
    {JObj([version |-> JStr(s_v1), mocks |-> JArr(<<ValidMock>>)]),
     JObj([name |-> JStr(s_cfgname), mappings |-> JArr(<<LegacyMapping("id" :> JStr(s_id1))>>)])}

InitStore == Init

NotFound == HttpResponse(404, [error |-> "Mapping not found"])

\* POST api/mappings
CreateMapping(mapping) ==
    /\ nextGuid < MaxGuid
    /\ store' = CreateMappingAsync(store, nextGuid, mapping).store
    /\ nextGuid' = nextGuid + 1
    /\ response' = HttpResponse(201, store'[Guid(nextGuid).s])
    /\ UNCHANGED <<doc, modelsNew, srvResult, cliResult, remote, fails, deployed, pending, deleted>>

\* PUT api/mappings/{id}, up to the answer of GetMappingAsync
UpdateMappingLookup(id, mapping) ==
    /\ Cardinality(pending) < MaxPending
    /\ IF GetMappingAsync(store, id).k = "null"
       THEN response' = NotFound /\ pending' = pending
       ELSE response' = response /\ pending' = pending \cup {[id |-> id, mapping |-> mapping]}
    /\ UNCHANGED <<doc, modelsNew, srvResult, cliResult, store, nextGuid, remote, fails, deployed,
                   deleted>>

\* PUT api/mappings/{id}, from the call of UpdateMappingAsync on
UpdateMappingStore(request) ==
    /\ request \in pending
    /\ store' = UpdateMappingAsync(store, request.id, request.mapping)
    /\ response' = HttpResponse(200, store'[request.id])
    /\ pending' = pending \ {request}
    /\ UNCHANGED <<doc, modelsNew, srvResult, cliResult, nextGuid, remote, fails, deployed, deleted>>

\* DELETE api/mappings/{id}
DeleteMapping(id) ==
    /\ IF id \in DOMAIN store
       THEN /\ store' = DeleteMappingAsync(store, id)
            /\ response' = HttpResponse(204, NoResult)
            /\ deleted' = deleted \cup {id}
       ELSE response' = NotFound /\ UNCHANGED <<store, deleted>>
    /\ UNCHANGED <<doc, modelsNew, srvResult, cliResult, nextGuid, remote, fails, deployed, pending>>

NextStore ==
    \/ \E mapping \in PostedMappings : CreateMapping(mapping)
    \/ \E id \in RequestedIds : \E mapping \in PostedMappings : UpdateMappingLookup(id, mapping)
    \/ \E request \in pending : UpdateMappingStore(request)
    \/ \E id \in RequestedIds : DeleteMapping(id)
    \/ \E d \in StoreDocs : GenerateMappings(d)

SpecStore == InitStore /\ [][NextStore]_vars

-----------------------------------------------------------------------------
(* Properties *)

\* C1.  Fail closed: a request to generate-mappings or validate-and-deploy whose
\* document is given a ValidationResult with isValid = FALSE is answered 400,
\* transforms no mapping (it draws no GUID and returns none), leaves the store as
\* it was, and issues no create-call.
C1_FailClosed ==
    [][~srvResult'.isValid =>
          /\ response'.status = 400
          /\ response'.body.validation = srvResult'
          /\ store' = store
          /\ nextGuid' = nextGuid
          /\ remote' = <<>>
          /\ deployed' = NoResult]_vars

\* An invalid document was sent for deployment to a service that stores a mapping.
C1_Witness ==
    /\ srvResult.k = "result"
    /\ ~srvResult.isValid
    /\ response.status = 400
    /\ DOMAIN store # {}
    /\ fails # {}

WellFormedResult(r) ==
    r.k = "result" =>
        /\ r.isValid = (Len(r.errors) = 0)
        /\ \A i \in 1..Len(r.errors) : r.errors[i].severity = "error"
        /\ \A i \in 1..Len(r.warnings) : r.warnings[i].severity = "warning"

\* C2.  Every ValidationResult the server or the client returns has isValid exactly
\* when its errors are empty, whatever its warnings; its errors all have severity
\* "error" and its warnings all have severity "warning".
C2_ValidIffNoErrors == WellFormedResult(srvResult) /\ WellFormedResult(cliResult)

\* The server found a document valid although it has warnings, and the client
\* found errors and warnings in it.
C2_Witness ==
    /\ srvResult.k = "result"
    /\ srvResult.isValid
    /\ Len(srvResult.warnings) > 0
    /\ cliResult.k = "result"
    /\ Len(cliResult.warnings) > 0

\* The single root-level error a caught exception is reported as
IsRootFailure(r, messages) ==
    /\ ~r.isValid
    /\ Len(r.errors) = 1
    /\ r.errors[1].path = "root"
    /\ r.errors[1].severity = "error"
    /\ r.errors[1].message \in messages

\* The client's validateBusinessLogic is reached and raises
ClientThrows(d) == Truthy(d) /\ TypeOf(d) = "object" /\ BusinessLogicThrows(d)

\* C3.  Both orchestrators always return a ValidationResult; when classification,
\* deserialization or a rule check raised, the result is invalid with a single
\* root-level error carrying the exception message.
C3_NeverRaises ==
    /\ srvResult.k \in {"none", "result"}
    /\ cliResult.k \in {"none", "result"}
    /\ (srvResult.k = "result" /\ ValidateConfigFromJsonTry(doc, modelsNew).k = "throw") =>
            IsRootFailure(srvResult,
                          {"Validation error: " \o ValidateConfigFromJsonTry(doc, modelsNew).message,
                           "JSON parsing error: " \o ValidateConfigFromJsonTry(doc, modelsNew).message})
    /\ (cliResult.k = "result" /\ ClientThrows(doc)) =>
            IsRootFailure(cliResult, {"Validation error: TypeError"})

\* Both orchestrators caught an exception on the same document.
C3_Witness ==
    /\ srvResult.k = "result"
    /\ ValidateConfigFromJsonTry(doc, modelsNew).k = "throw"
    /\ cliResult.k = "result"
    /\ ClientThrows(doc)

\* The result carries exactly one error, and it is at path p
OneErrorAt(r, p) ==
    /\ ~r.isValid
    /\ Len(r.errors) = 1
    /\ r.errors[1].path = p
    /\ r.errors[1].severity = "error"

\* A valid document with one required field taken out, and the path of that field
MissingFieldCases ==
    {[doc |-> JObj([mocks |-> JArr(<<ValidMock>>)]), path |-> "version"],
     [doc |-> JObj([version |-> JStr(s_v1)]), path |-> "mocks"],
     [doc |-> JObj([version |-> JStr(s_v1), mocks |-> JArr(<<JObj([response |-> ValidResponse])>>)]),
      path |-> "mocks[0].request"],
     [doc |-> JObj([version |-> JStr(s_v1), mocks |-> JArr(<<JObj([request |-> ValidRequest])>>)]),
      path |-> "mocks[0].response"],
     [doc |-> JObj([version |-> JStr(s_v1),
                    mocks |-> JArr(<<JObj([request |-> JObj([url |-> JStr(s_url)]),
                                           response |-> ValidResponse])>>)]),
      path |-> "mocks[0].request.method"],
     [doc |-> JObj([version |-> JStr(s_v1),
                    mocks |-> JArr(<<JObj([request |-> ValidRequest, response |-> JObj(<<>>)])>>)]),
      path |-> "mocks[0].response.status"],
     [doc |-> JObj([version |-> JStr(s_v1), target |-> JObj(<<>>), mocks |-> JArr(<<ValidMock>>)]),
      path |-> "target.baseUrl"]}

\* C4.  A document that misses exactly one required field and is otherwise valid
\* is reported, by the server and by the client, with exactly one error, located
\* at the path of the missing field, of severity "error", and with isValid = FALSE.
C4_OneErrorAtMissingField ==
    \A c \in MissingFieldCases :
        doc = c.doc =>
            /\ srvResult.k = "result" => OneErrorAt(srvResult, c.path)
            /\ cliResult.k = "result" => OneErrorAt(cliResult, c.path)

\* The target of the document names basic authentication without its username or
\* password, or bearer authentication without its token
AuthIncomplete(d) ==
    /\ HasKey(d, "target")
    /\ HasKey(d.o.target, "auth")
    /\ HasKey(d.o.target.o.auth, "type")
    /\ \/ /\ d.o.target.o.auth.o.type = JStr(s_basic)
          /\ ~(HasKey(d.o.target.o.auth, "username") /\ HasKey(d.o.target.o.auth, "password"))
       \/ /\ d.o.target.o.auth.o.type = JStr(s_bearer)
          /\ ~HasKey(d.o.target.o.auth, "token")

\* A document of valid mocks whose only defect is the incomplete authentication
OnlyAuthIncomplete(d) ==
    /\ IsAtomConfig(d)
    /\ AuthIncomplete(d)
    /\ Prop(d, "version") = JStr(s_v1)
    /\ Prop(d.o.target, "baseUrl") = JStr(s_http)
    /\ \A i \in 1..Len(d.o.mocks.a) : d.o.mocks.a[i] = ValidMock

ErrorsAt(r, p) == Cardinality({i \in 1..Len(r.errors) : r.errors[i].path = p})

\* C5.  A document whose authentication is incomplete is reported, by the server
\* and by the client, as invalid with exactly one error at target.auth, whether it
\* has no mock, one mock or more.
C5_AuthErrorOnce ==
    OnlyAuthIncomplete(doc) =>
        /\ srvResult.k = "result" => ~srvResult.isValid /\ ErrorsAt(srvResult, "target.auth") = 1
        /\ cliResult.k = "result" => ~cliResult.isValid /\ ErrorsAt(cliResult, "target.auth") = 1

\* The mappings the generating endpoint answered with
Generated == response.body.mappings

HasGenerated == response.k = "response" /\ response.status = 200

\* The typed request of the i-th mock of the document
MockRequestOf(i) == TypedConfig(doc, modelsNew).o.mocks.a[i].o.request

\* The URL matcher fields in their order of resolution
UrlFields == <<"url", "urlPattern", "urlPath", "urlPathPattern", "pathTemplate">>

\* A field is set when it is present and not blank
IsSet(req, f) == ~IsNullOrWhiteSpace(req.o[f])

\* The position in UrlFields of the first field that is set, 0 when none is
FirstSet(req) ==
    IF \A j \in 1..Len(UrlFields) : ~IsSet(req, UrlFields[j]) THEN 0
    ELSE CHOOSE j \in 1..Len(UrlFields) :
            IsSet(req, UrlFields[j]) /\ \A h \in 1..(j - 1) : ~IsSet(req, UrlFields[h])

\* The rest of a template after the closing brace of the placeholder it starts in
RECURSIVE AfterPlaceholder(_)
AfterPlaceholder(t) ==
    IF t = <<>> THEN <<>>
    ELSE IF Head(t) = "}" THEN Tail(t)
    ELSE AfterPlaceholder(Tail(t))

\* The template with each whole placeholder replaced by the capture group
RECURSIVE WholePlaceholdersReplaced(_)
WholePlaceholdersReplaced(t) ==
    IF t = <<>> THEN <<>>
    ELSE IF Head(t) = "{"
    THEN <<"(", "[", "^", "/", "]", "+", ")">> \o WholePlaceholdersReplaced(AfterPlaceholder(Tail(t)))
    ELSE <<Head(t)>> \o WholePlaceholdersReplaced(Tail(t))

\* C6.  A mock resolved by its pathTemplate is emitted with the urlPattern that
\* has every whole placeholder, braces and name, replaced by ([^/]+): no brace and
\* no placeholder name is left in it.
C6_WholePlaceholderReplaced ==
    HasGenerated =>
        \A i \in 1..Len(Generated) :
            FirstSet(MockRequestOf(i)) = 5 =>
                Generated[i].o.request.o.urlPattern =
                    JStr(WholePlaceholdersReplaced(MockRequestOf(i).o.pathTemplate.s))

\* C7.  The URL matcher of a mock is resolved first-match-wins in the order url,
\* urlPattern, urlPath, urlPathPattern, pathTemplate, a field counting as set when
\* it is present and not blank: the mapping has a url and a urlPattern never both,
\* one of them when a field is set and none otherwise; url and urlPath give the
\* url, urlPattern and urlPathPattern the urlPattern, pathTemplate a urlPattern.
C7_FirstMatchWins ==
    HasGenerated =>
        \A i \in 1..Len(Generated) :
            LET req == MockRequestOf(i)
                out == Generated[i].o.request.o
                first == FirstSet(req)
            IN  /\ out.url.k = "null" \/ out.urlPattern.k = "null"
                /\ (first = 0) = (out.url.k = "null" /\ out.urlPattern.k = "null")
                /\ first \in {1, 3} => out.url = req.o[UrlFields[first]]
                /\ first \in {2, 4} => out.urlPattern = req.o[UrlFields[first]]
                /\ first = 5 => out.urlPattern.k = "string"

\* A mock with a urlPath and a pathTemplate, and neither url nor urlPattern, was
\* emitted with its urlPath as the exact url.
C7_Witness ==
    /\ HasGenerated
    /\ \E i \in 1..Len(Generated) :
         /\ FirstSet(MockRequestOf(i)) = 3
         /\ IsSet(MockRequestOf(i), "pathTemplate")
         /\ Generated[i].o.request.o.url = MockRequestOf(i).o.urlPath
         /\ Generated[i].o.request.o.urlPattern.k = "null"

\* The elements of a sequence at the positions outside a set, in their order
RECURSIVE Except(_, _, _)
Except(xs, pos, skipped) ==
    IF xs = <<>> THEN <<>>
    ELSE (IF pos \in skipped THEN <<>> ELSE <<Head(xs)>>) \o Except(Tail(xs), pos + 1, skipped)

\* C8.  A deployment issues one create-call for every generated mapping, in the
\* order of the list, whichever of them fail; it is answered 200, and what
\* CreateMappingsAsync returns is the mappings whose create-call succeeded, in the
\* order of the list.
C8_OneCallPerMapping ==
    [][deployed'.k = "returned" =>
          LET input == GenerateFor(doc', store, nextGuid, modelsNew).mappings
          IN  /\ Len(remote') = Len(input)
              /\ \A i \in 1..Len(input) :
                    remote'[i].mapping = input[i] /\ remote'[i].ok = (i \notin fails')
              /\ deployed'.mappings = Except(input, 1, fails')
              /\ response'.status = 200]_vars

\* Of a batch of MaxBatch mappings the second create-call failed, and the others
\* were issued and returned.
C8_Witness ==
    /\ deployed.k = "returned"
    /\ fails = {2}
    /\ Len(remote) = MaxBatch
    /\ Len(deployed.mappings) = MaxBatch - 1

\* C9.  The result of a deployment in which create-calls failed carries the number
\* of successes and the list of the failures, one entry for each failed call.
C9_ReportsFailures ==
    (deployed.k = "returned" /\ \E i \in 1..Len(remote) : ~remote[i].ok) =>
        /\ response.body.deployed.mappingsCount
             = Cardinality({i \in 1..Len(remote) : remote[i].ok})
        /\ "failures" \in DOMAIN response.body.deployed
        /\ Len(response.body.deployed.failures)
             = Cardinality({i \in 1..Len(remote) : ~remote[i].ok})

\* C10.  Every mapping of a legacy document that carries a non-blank id is
\* returned by the generation with that id, and stored under it.
C10_KeepsId ==
    (HasGenerated /\ "mappings" \in DOMAIN response.body /\ ~IsAtomConfig(doc)) =>
        \A i \in 1..Len(Generated) :
            LET given == Prop(doc.o.mappings.a[i], "id")
            IN  (given.k = "string" /\ ~IsNullOrWhiteSpace(given)) =>
                    /\ Generated[i].o.id = given
                    /\ given.s \in DOMAIN store

\* The typed i-th mock of the document
MockOf(i) == TypedConfig(doc, modelsNew).o.mocks.a[i]

\* C11.  Every mapping carries the scenario name, required state and new state of
\* its mock, and the metadata map of its mock unchanged; it carries none of them
\* when the mock has no scenario, or no metadata.
C11_ScenarioAndMetadata ==
    HasGenerated =>
        \A i \in 1..Len(Generated) :
            LET scenario == MockOf(i).o.scenario
                out == Generated[i].o
            IN  /\ scenario.k = "null" =>
                      /\ out.scenarioName.k = "null"
                      /\ out.requiredScenarioState.k = "null"
                      /\ out.newScenarioState.k = "null"
                /\ scenario.k # "null" =>
                      /\ out.scenarioName = scenario.o.name
                      /\ out.requiredScenarioState = scenario.o.requiredState
                      /\ out.newScenarioState = scenario.o.newState
                /\ out.metadata = MockOf(i).o.metadata

\* C12.  The response of every mapping has the fixedDelayMilliseconds and the
\* proxyBaseUrl that the response of its mock sets.
C12_DelayAndProxy ==
    HasGenerated =>
        \A i \in 1..Len(Generated) :
            LET resp == MockOf(i).o.response.o
                out == Generated[i].o.response.o
            IN  /\ resp.fixedDelayMilliseconds.k # "null" =>
                      out.fixedDelayMilliseconds = resp.fixedDelayMilliseconds
                /\ resp.proxyBaseUrl.k # "null" => out.proxyBaseUrl = resp.proxyBaseUrl

\* C13.  A call that validates a document, and transforms it when it is valid,
\* leaves the mapping store of the service as it found it.
C13_StoreUnchanged == [][store' = store]_vars

\* A response body that names the type "file" without a fileName, or the type
\* "inline" without a value
IncompleteBodies ==
    {JObj([type |-> JStr(s_file)]), JObj([type |-> JStr(s_file), value |-> JStr(s_body)]),
     JObj([type |-> JStr(s_inline)]), JObj([type |-> JStr(s_inline), fileName |-> JStr(s_fname)])}

\* A document of valid mocks whose only defect is the incomplete body of mock i
OnlyBodyIncomplete(d, i) ==
    /\ IsAtomConfig(d)
    /\ DOMAIN d.o = {"version", "mocks"}
    /\ d.o.version = JStr(s_v1)
    /\ i \in 1..Len(d.o.mocks.a)
    /\ \A j \in 1..Len(d.o.mocks.a) :
          IF j = i
          THEN d.o.mocks.a[j] \in
                  {JObj([request |-> ValidRequest,
                         response |-> JObj([status |-> JInt(200), body |-> b])]) :
                      b \in IncompleteBodies}
          ELSE d.o.mocks.a[j] = ValidMock

\* C14.  A document whose only defect is a file body without a fileName, or an
\* inline body without a value, is reported by the server and by the client as
\* invalid with exactly one error, at the body of that mock, and the generating
\* endpoint rejects it without producing a mapping.
C14_BodyIncompleteOneError ==
    \A i \in 1..MaxMocks :
        OnlyBodyIncomplete(doc, i) =>
            /\ srvResult.k = "result" =>
                  /\ OneErrorAt(srvResult, MockPath(i - 1) \o ".response.body")
                  /\ GenerateMappingsHandler(doc, store, nextGuid, modelsNew).response.status = 400
            /\ cliResult.k = "result" =>
                  OneErrorAt(cliResult, MockPath(i - 1) \o ".response.body")

\* Mock i of the document has a response with a body object
HasBody(d, i) ==
    /\ IsAtomConfig(d)
    /\ i \in 1..Len(d.o.mocks.a)
    /\ HasKey(d.o.mocks.a[i], "response")
    /\ HasKey(d.o.mocks.a[i].o.response, "body")
    /\ d.o.mocks.a[i].o.response.o.body.k = "object"

\* The alternatives of the body: an inline body with a value, a file body with a fileName
SatisfiesInline(b) == Prop(b, "type") = JStr(s_inline) /\ Prop(b, "value").k = "string"
SatisfiesFile(b) == Prop(b, "type") = JStr(s_file) /\ Prop(b, "fileName").k = "string"

OneOfMessages ==
    {"Data does not match any of the required schemas",
     "Data matches multiple schemas when only one is allowed"}

\* C15.  The client's schema validation reports a oneOf error at a response body
\* exactly when the body satisfies none or both of the alternatives; a body that
\* satisfies exactly one of them gets no schema error.
C15_OneOfExactlyOne ==
    (cliResult.k = "result" /\ ~ClientThrows(doc)) =>
        \A i \in 1..MaxMocks :
            HasBody(doc, i) =>
                LET body == doc.o.mocks.a[i].o.response.o.body
                    path == MockPath(i - 1) \o ".response.body"
                    schemaErrors == validate(doc, ATOM_SCHEMA, "")
                    atBody == {n \in 1..Len(schemaErrors) : schemaErrors[n].path = path}
                IN  /\ (\E n \in atBody : schemaErrors[n].message \in OneOfMessages)
                            <=> (SatisfiesInline(body) <=> SatisfiesFile(body))
                    /\ (SatisfiesInline(body) # SatisfiesFile(body)) => atBody = {}

\* C16.  A document whose root is not an object (null, a number, a string, a
\* boolean, an array) is reported by the server and by the client as invalid with
\* exactly one error, at the root path.
C16_NonObjectRootError ==
    doc.k # "object" =>
        /\ srvResult.k = "result" => OneErrorAt(srvResult, "root")
        /\ cliResult.k = "result" => OneErrorAt(cliResult, "root")

\* The number of mappings the last call generated: the ones it answered with, or
\* the ones it sent to the remote
GeneratedCount == IF deployed.k = "returned" THEN Len(remote) ELSE Len(Generated)

\* C17.  A document is of the mock dialect exactly when its mocks member is an
\* array, and of the legacy dialect otherwise; the validation and the generating
\* and deploying actions classify every document alike, so an accepted document
\* yields one mapping per mock, or one per legacy mapping.
C17_DialectsAgree ==
    doc.k = "object" =>
        /\ ControllerIsAtomConfig(doc) <=> IsAtomConfig(doc)
        /\ IsAtomConfig(doc) <=> (Prop(doc, "mocks").k = "array")
        /\ HasGenerated =>
              GeneratedCount = IF Prop(doc, "mocks").k = "array" THEN Len(doc.o.mocks.a)
                               ELSE Len(doc.o.mappings.a)

\* A document with a mocks array and a different number of legacy mappings was deployed.
C17_Witness ==
    /\ HasGenerated
    /\ deployed.k = "returned"
    /\ Prop(doc, "mocks").k = "array"
    /\ Prop(doc, "mappings").k = "array"
    /\ Len(doc.o.mocks.a) # Len(doc.o.mappings.a)

\* Mock i of the document has a response whose status is an integer
HasStatus(d, i) ==
    /\ IsAtomConfig(d)
    /\ i \in 1..Len(d.o.mocks.a)
    /\ HasKey(d.o.mocks.a[i], "response")
    /\ HasKey(d.o.mocks.a[i].o.response, "status")
    /\ d.o.mocks.a[i].o.response.o.status.k = "number"

\* The entries of the list that are errors at path p
ErrorEntriesAt(errors, p) ==
    {n \in 1..Len(errors) : errors[n].path = p /\ errors[n].severity = "error"}

\* The result has the status errors of a mock whose status is n: one when n is
\* outside 100..599, none when it is inside
StatusErrors(r, i, n) ==
    /\ Cardinality(ErrorEntriesAt(r.errors, MockPath(i - 1) \o ".response.status"))
          = IF n < 100 \/ n > 599 THEN 1 ELSE 0
    /\ ErrorsAt(r, MockPath(i - 1) \o ".response.status")
          = IF n < 100 \/ n > 599 THEN 1 ELSE 0
    /\ (n < 100 \/ n > 599) => ~r.isValid

\* C18.  For a mock whose status is an integer, the server and the client report
\* exactly one error at mocks[i].response.status when the status is outside
\* 100..599, and none at that path when it is inside.
C18_StatusRange ==
    \A i \in 1..MaxMocks :
        HasStatus(doc, i) =>
            /\ (srvResult.k = "result" /\ ValidateConfigFromJsonTry(doc, modelsNew).k # "throw") =>
                  StatusErrors(srvResult, i, doc.o.mocks.a[i].o.response.o.status.n)
            /\ (cliResult.k = "result" /\ ~ClientThrows(doc)) =>
                  StatusErrors(cliResult, i, doc.o.mocks.a[i].o.response.o.status.n)

\* Both sides validated a document whose second mock has status 600 and whose
\* first mock has a status inside the range.
C18_Witness ==
    /\ srvResult.k = "result"
    /\ cliResult.k = "result"
    /\ HasStatus(doc, 1)
    /\ HasStatus(doc, 2)
    /\ doc.o.mocks.a[1].o.response.o.status.n = 599
    /\ doc.o.mocks.a[2].o.response.o.status.n = 600
    /\ ~ClientThrows(doc)

\* Mock i of the document has a request object
HasRequest(d, i) ==
    /\ IsAtomConfig(d)
    /\ i \in 1..Len(d.o.mocks.a)
    /\ HasKey(d.o.mocks.a[i], "request")
    /\ d.o.mocks.a[i].o.request.k = "object"

\* The request carries the property as a string that is not blank
SetIn(request, key) ==
    /\ Prop(request, key).k = "string"
    /\ \E n \in 1..Len(Prop(request, key).s) : ~IsWhiteSpace(Prop(request, key).s[n])

\* The document is valid but for the URL properties of the request of mock i
OtherwiseValid(d, i) ==
    /\ DOMAIN d.o = {"version", "mocks"}
    /\ d.o.version = JStr(s_v1)
    /\ \A j \in 1..Len(d.o.mocks.a) : j # i => d.o.mocks.a[j] = ValidMock
    /\ DOMAIN d.o.mocks.a[i].o = {"request", "response"}
    /\ d.o.mocks.a[i].o.response = ValidResponse
    /\ Prop(d.o.mocks.a[i].o.request, "method") = JStr(s_GET)
    /\ DOMAIN d.o.mocks.a[i].o.request.o \subseteq {"method", "url", "urlPattern"}

WarningsAt(r, p) == {n \in 1..Len(r.warnings) : r.warnings[n].path = p}

\* The result warns once about the request of mock i, reports no error there, and
\* is valid when the document has no other defect
WarnsOnce(r, d, i) ==
    /\ Cardinality(WarningsAt(r, MockPath(i - 1) \o ".request")) = 1
    /\ \A n \in WarningsAt(r, MockPath(i - 1) \o ".request") : r.warnings[n].severity = "warning"
    /\ ErrorsAt(r, MockPath(i - 1) \o ".request") = 0
    /\ OtherwiseValid(d, i) => r.isValid /\ r.errors = <<>>

\* The server's validation, and the client's, ran to the end
SrvValidated == srvResult.k = "result" /\ ValidateConfigFromJsonTry(doc, modelsNew).k # "throw"
CliValidated == cliResult.k = "result" /\ ~ClientThrows(doc)

\* C19.  A mock that sets both url and urlPattern gets, from the server and from
\* the client, exactly one warning at mocks[i].request and no error there; the
\* document is not made invalid by it.
C19_UrlConflictWarning ==
    \A i \in 1..MaxMocks :
        (/\ HasRequest(doc, i)
         /\ SetIn(doc.o.mocks.a[i].o.request, "url")
         /\ SetIn(doc.o.mocks.a[i].o.request, "urlPattern")) =>
            /\ SrvValidated => WarnsOnce(srvResult, doc, i)
            /\ CliValidated => WarnsOnce(cliResult, doc, i)

\* Both sides validated a document whose only defect is a mock with url and urlPattern.
C19_Witness ==
    /\ SrvValidated
    /\ CliValidated
    /\ \E i \in 1..MaxMocks :
          /\ HasRequest(doc, i)
          /\ SetIn(doc.o.mocks.a[i].o.request, "url")
          /\ SetIn(doc.o.mocks.a[i].o.request, "urlPattern")
          /\ OtherwiseValid(doc, i)

UrlProperties == {"url", "urlPattern", "urlPath", "urlPathPattern", "pathTemplate"}

\* C20.  A mock whose request carries none of the five URL properties gets, from
\* the server and from the client, a warning at mocks[i].request and no error
\* there; a document with no other defect stays valid.
C20_NoUrlMatcherWarning ==
    \A i \in 1..MaxMocks :
        (HasRequest(doc, i) /\ DOMAIN doc.o.mocks.a[i].o.request.o \cap UrlProperties = {}) =>
            /\ SrvValidated => WarnsOnce(srvResult, doc, i)
            /\ CliValidated => WarnsOnce(cliResult, doc, i)

\* Both sides validated a document whose only defect is a mock without URL properties.
C20_Witness ==
    /\ SrvValidated
    /\ CliValidated
    /\ \E i \in 1..MaxMocks :
          /\ HasRequest(doc, i)
          /\ DOMAIN doc.o.mocks.a[i].o.request.o \cap UrlProperties = {}
          /\ OtherwiseValid(doc, i)
          /\ cliResult.isValid

\* The priority the document gives mock i: its own, else the default, else none
ExpectedPriority(d, i) ==
    IF HasKey(d.o.mocks.a[i], "priority") THEN d.o.mocks.a[i].o.priority
    ELSE IF HasKey(d, "defaults") /\ HasKey(d.o.defaults, "priority") THEN d.o.defaults.o.priority
    ELSE JNull

\* C21.  The priority of every mapping is the priority of its mock when the mock
\* has one, otherwise the default priority of the document when it has one,
\* otherwise absent.
C21_PriorityResolution ==
    HasGenerated =>
        \A i \in 1..Len(Generated) : Generated[i].o.priority = ExpectedPriority(doc, i)

\* Default priority 5, a first mock without priority and a second of priority 2
\* gave the priorities 5 and 2.
C21_Witness ==
    /\ HasGenerated
    /\ Len(Generated) = 2
    /\ Prop(Prop(doc, "defaults"), "priority") = JInt(5)
    /\ ~HasKey(doc.o.mocks.a[1], "priority")
    /\ Generated[1].o.priority = JInt(5)
    /\ Generated[2].o.priority = JInt(2)

\* The header names of a header map of the document, none when the map is absent
Names(h) == IF h.k = "object" THEN DOMAIN h.o ELSE {}

\* The emitted header map holds, for every name of either level, the entry of the
\* mock when the mock has the name and the entry made of the default otherwise
Overlaid(out, defaults, own, FromDefault(_)) ==
    IF Names(defaults) \cup Names(own) = {} THEN out.k = "null"
    ELSE /\ out.k = "object"
         /\ DOMAIN out.o = Names(defaults) \cup Names(own)
         /\ \A name \in DOMAIN out.o :
               out.o[name] = IF name \in Names(own) THEN own.o[name]
                             ELSE FromDefault(defaults.o[name])

EqualToMatcher(value) == JObj("equalTo" :> value)
PlainString(value) == value

\* C22.  The request header matchers and the response headers of every mapping
\* are the default headers of the document (as equalTo matchers, as plain
\* strings) overlaid by the headers of the mock: a name of both levels holds only
\* the entry of the mock, and every name of one level only is present.
C22_HeaderMerge ==
    HasGenerated =>
        \A i \in 1..Len(Generated) :
            /\ Overlaid(Generated[i].o.request.o.headers,
                        Prop(Prop(doc, "defaults"), "headers"),
                        Prop(Prop(doc.o.mocks.a[i], "request"), "headers"), EqualToMatcher)
            /\ Overlaid(Generated[i].o.response.o.headers,
                        Prop(Prop(doc, "defaults"), "headers"),
                        Prop(Prop(doc.o.mocks.a[i], "response"), "headers"), PlainString)

\* A mapping was made from default headers and mock headers that share a name.
C22_Witness ==
    /\ HasGenerated
    /\ Names(Prop(Prop(doc, "defaults"), "headers")) = {"a", "b"}
    /\ Names(Prop(Prop(doc.o.mocks.a[1], "request"), "headers")) = {"a", "c"}
    /\ Names(Prop(Prop(doc.o.mocks.a[1], "response"), "headers")) = {"a", "c"}
    /\ DOMAIN Generated[1].o.response.o.headers.o = {"a", "b", "c"}

\* The body of the response of mock i in the document, undefined when it has none
RawBody(i) == Prop(Prop(doc.o.mocks.a[i], "response"), "body")

\* C23.  A mock with an inline body yields a mapping whose body is the value and
\* which names no file; a mock with a file body yields a mapping that names the
\* file and has no body; a mock without body yields a mapping with neither.
C23_BodyResolution ==
    HasGenerated =>
        \A i \in 1..Len(Generated) :
            LET out == Generated[i].o.response.o
            IN  /\ RawBody(i).k = "undefined" =>
                      out.body.k = "null" /\ out.bodyFileName.k = "null"
                /\ Prop(RawBody(i), "type") = JStr(s_inline) =>
                      out.body = RawBody(i).o.value /\ out.bodyFileName.k = "null"
                /\ Prop(RawBody(i), "type") = JStr(s_file) =>
                      out.bodyFileName = RawBody(i).o.fileName /\ out.body.k = "null"

\* A mapping was made from an inline body that also names a file.
C23_Witness ==
    /\ HasGenerated
    /\ Prop(RawBody(1), "type") = JStr(s_inline)
    /\ HasKey(RawBody(1), "fileName")
    /\ Generated[1].o.response.o.body = JStr(s_body)

\* The ids of the mappings a call generated, in the order of the batch: of the
\* mappings it answered with, or of the ones it sent to the remote
BatchIds(resp, returned, calls) ==
    IF returned.k = "returned" THEN [i \in 1..Len(calls) |-> calls[i].mapping.o.id]
    ELSE [i \in 1..Len(resp.body.mappings) |-> resp.body.mappings[i].o.id]

Distinct(seq) == \A i, j \in 1..Len(seq) : seq[i] = seq[j] => i = j

\* C24.  The ids of the mappings of one generation are pairwise different, for
\* mocks and for legacy mappings (also when the legacy mappings arrive with equal
\* ids); each is stored under its id, and no entry the store held before the
\* generation is replaced or removed.
C24_UniqueIds ==
    [][(response'.k = "response" /\ response'.status = 200) =>
          /\ Distinct(BatchIds(response', deployed', remote'))
          /\ \A i \in 1..Len(BatchIds(response', deployed', remote')) :
                /\ BatchIds(response', deployed', remote')[i].s \in DOMAIN store'
                /\ BatchIds(response', deployed', remote')[i].s \notin DOMAIN store
          /\ \A key \in DOMAIN store : key \in DOMAIN store' /\ store'[key] = store[key]]_vars

\* Two legacy mappings that arrived with the same id were generated into a store
\* that held a mapping, and the store holds all three.
C24_Witness ==
    /\ HasGenerated
    /\ ~IsAtomConfig(doc)
    /\ Len(doc.o.mappings.a) = 2
    /\ Prop(doc.o.mappings.a[1], "id") = JStr(s_id1)
    /\ Prop(doc.o.mappings.a[2], "id") = JStr(s_id1)
    /\ Cardinality(DOMAIN store) = 3

\* The mapping without its id
WithoutId(mapping) == With(mapping, "id", JNull)

\* The document with its list of mocks emptied
WithoutMocks(d) == With(d, "mocks", JArr(<<>>))

\* C25.  The generation returns one mapping for every mock, the i-th mapping being
\* the conversion of the i-th mock, whatever the priorities; of a document without
\* mocks GenerateMappingsFromATOMAsync returns the empty list.
C25_OrderPreserved ==
    HasGenerated =>
        /\ Len(Generated) = Len(doc.o.mocks.a)
        /\ \A i \in 1..Len(Generated) :
              /\ WithoutId(Generated[i])
                    = WithoutId(ConvertToWiremockMapping(MockOf(i), TypedConfig(doc, modelsNew), JNull))
              /\ Generated[i].o.priority = ExpectedPriority(doc, i)
              /\ Generated[i].o.response.o.body
                    = (IF Prop(RawBody(i), "type") = JStr(s_inline) THEN RawBody(i).o.value ELSE JNull)
        /\ GenerateMappingsFromATOMAsync(<<>>, 0,
               TypedConfig(WithoutMocks(doc), modelsNew)).mappings = <<>>

\* Two mocks of priorities 7 and 2, in this order, gave mappings of priorities 7 and 2.
C25_Witness ==
    /\ HasGenerated
    /\ Len(Generated) = 2
    /\ Generated[1].o.priority = JInt(7)
    /\ Generated[2].o.priority = JInt(2)
    /\ Generated[1].o.response.o.body = JStr(s_body)

\* The mappings a call generated: the ones it answered with, or the ones it sent
\* to the remote
Batch(resp, returned, calls) ==
    IF returned.k = "returned" THEN [i \in 1..Len(calls) |-> calls[i].mapping]
    ELSE resp.body.mappings

SameButIds(first, second) ==
    /\ Len(first) = Len(second)
    /\ \A i \in 1..Len(first) : WithoutId(first[i]) = WithoutId(second[i])

C27_PriorityAtLeastOne ==
    HasGenerated =>
        \A i \in 1..Len(Generated) :
            Generated[i].o.priority.k = "null" \/ Generated[i].o.priority.n >= 1

\* C28.  Whatever creations, updates, deletions and generations the store went
\* through, every entry holds a mapping whose id is the key it is stored under,
\* and reading the key returns that mapping.
C28_KeyIsId ==
    \A key \in DOMAIN store :
        /\ store[key].o.id = JStr(key)
        /\ GetMappingAsync(store, key) = store[key]

\* An update replaced a created mapping by a mapping posted with another id.
C28_Witness ==
    /\ response.k = "response"
    /\ response.status = 200
    /\ deleted # {}
    /\ \E key \in DOMAIN store : store[key].o.response.o.status = JInt(404)

\* C29.  Once a DeleteMapping request for an id was answered with success, the
\* store never holds that id again, however UpdateMapping and DeleteMapping
\* requests for it interleave.
C29_NoResurrection == \A id \in deleted : id \notin DOMAIN store

\* C30.  For every document of the mock dialect the client's validateATOMConfig
\* and the server's validation return the same isValid.
C30_SameVerdict ==
    (IsAtomConfig(doc) /\ srvResult.k = "result" /\ cliResult.k = "result") =>
        srvResult.isValid = cliResult.isValid

=============================================================================
